---- MODULE Spec2Model ----
(***************************************************************************)
(* A model of the Scaffold component (src/src/scaffold/Scaffold.tsx): the  *)
(* configuration resolver, the theme adapter, the seven region renderers,  *)
(* the transient layout state, the bottom-sheet slide effect and the tab   *)
(* press handler.                                                          *)
(*                                                                         *)
(* JavaScript objects with optional fields are functions whose domain is   *)
(* the set of fields that are present; an absent prop is Undef.            *)
(***************************************************************************)
EXTENDS Integers, Sequences, FiniteSets, TLC

VARIABLES
    os,               \* Platform.OS
    colorScheme,      \* useColorScheme(): "light", "dark" or "null"
    isRTL,            \* I18nManager.isRTL
    props,            \* the seven props of the component
    statusBarHeight,  \* useState
    appBarHeight,     \* useState
    bottomNavHeight,  \* useState
    slideAnim,        \* slideAnimRef.current and the timing animation driving it
    prevVisible,      \* prevVisible.current
    tree,             \* the element tree returned by the last render
    calls,            \* the callbacks the last handler invoked, in order
    uncaught          \* whether an exception left the last handler

vars == <<os, colorScheme, isRTL, props, statusBarHeight, appBarHeight,
          bottomNavHeight, slideAnim, prevVisible, tree, calls, uncaught>>

Regions == {"statusBar", "appBar", "body", "bottomNavigationBar",
            "floatingActionButton", "bottomSheet", "topNavigationBar"}

(***************************************************************************)
(* JavaScript values and operators                                         *)
(***************************************************************************)
EmptyRec == [f \in {} |-> TRUE]

Undef == [present |-> FALSE, cfg |-> EmptyRec]

Obj(c) == [present |-> TRUE, cfg |-> c]

\* cfg.f is neither undefined nor absent
Has(cfg, f) == f \in DOMAIN cfg

\* { ...a, ...b }
Spread(a, b) ==
    [f \in DOMAIN a \cup DOMAIN b |-> IF f \in DOMAIN b THEN b[f] ELSE a[f]]

\* truthiness of a boolean-valued field
Flag(cfg, f) == Has(cfg, f) /\ cfg[f] = TRUE

\* cfg.f || d   for a string-valued field
OrStr(cfg, f, d) == IF Has(cfg, f) /\ cfg[f] # "" THEN cfg[f] ELSE d

\* cfg.f || d   for a number-valued field
OrNum(cfg, f, d) == IF Has(cfg, f) /\ cfg[f] # 0 THEN cfg[f] ELSE d

\* cfg.f ?? d
Nullish(cfg, f, d) == IF Has(cfg, f) THEN cfg[f] ELSE d

\* the value undefined where a string is expected
Undefined == "undefined"

(***************************************************************************)
(* Configuration resolver                                                  *)
(***************************************************************************)
\* the body shared by the seven getPlatform*Config callbacks
MergeIosBroken(p, o) ==
    IF o = "ios" /\ Has(p.cfg, "android") THEN Spread(p.cfg, p.cfg.android)
    ELSE IF o = "android" /\ Has(p.cfg, "android") THEN Spread(p.cfg, p.cfg.android)
    ELSE p.cfg

PlatformMerge(p, o) ==
    IF o = "ios" /\ Has(p.cfg, "ios") THEN Spread(p.cfg, p.cfg.ios)
    ELSE IF o = "android" /\ Has(p.cfg, "android") THEN Spread(p.cfg, p.cfg.android)
    ELSE p.cfg

getPlatformStatusBarConfig(p, o) == PlatformMerge(p, o)

getPlatformAppBarConfig(p, o) == PlatformMerge(p, o)

getPlatformBodyConfig(p, o) == PlatformMerge(p, o)

getPlatformBottomNavConfig(p, o) ==
    IF ~p.present THEN EmptyRec ELSE PlatformMerge(p, o)

getPlatformFABConfig(p, o) ==
    IF ~p.present THEN EmptyRec ELSE PlatformMerge(p, o)

getPlatformBottomSheetConfig(p, o) ==
    IF ~p.present THEN EmptyRec ELSE PlatformMerge(p, o)

getPlatformTopNavConfig(p, o) ==
    IF ~p.present THEN EmptyRec ELSE PlatformMerge(p, o)

\* the platform*Config memo of region r
PlatformConfig(r, p, o) ==
    CASE r = "statusBar" -> getPlatformStatusBarConfig(p, o)
      [] r = "appBar" -> getPlatformAppBarConfig(p, o)
      [] r = "body" -> getPlatformBodyConfig(p, o)
      [] r = "bottomNavigationBar" -> getPlatformBottomNavConfig(p, o)
      [] r = "floatingActionButton" -> getPlatformFABConfig(p, o)
      [] r = "bottomSheet" -> getPlatformBottomSheetConfig(p, o)
      [] r = "topNavigationBar" -> getPlatformTopNavConfig(p, o)

(***************************************************************************)
(* Theme adapter                                                           *)
(***************************************************************************)
Known(cs) == cs # "null"

\* colorScheme === 'dark' ? cfg.backgroundColor || dark : cfg.backgroundColor || light
SchemeColor(cfg, cs, dark, light) ==
    IF cs = "dark" THEN OrStr(cfg, "backgroundColor", dark)
    ELSE OrStr(cfg, "backgroundColor", light)

ContentStyle(cs) == IF cs = "dark" THEN "light-content" ELSE "dark-content"

\* getAdaptiveStatusBarStyle whose auto-detect branch emits a background too
getAdaptiveStatusBarStyleAutoBackground(cfg, cs) ==
    IF (Flag(cfg, "adaptiveTheme") \/ Flag(cfg, "autoDetectTheme")) /\ Known(cs)
    THEN [backgroundColor |-> SchemeColor(cfg, cs, "#1a1a1a", "#ffffff"),
          style |-> ContentStyle(cs)]
    ELSE EmptyRec

\* getAdaptiveStatusBarStyle with the auto-detect branch tested first
getAdaptiveStatusBarStyleAutoFirst(cfg, cs) ==
    IF Flag(cfg, "autoDetectTheme") /\ Known(cs)
    THEN [style |-> ContentStyle(cs)]
    ELSE IF Flag(cfg, "adaptiveTheme") /\ Known(cs)
    THEN [backgroundColor |-> SchemeColor(cfg, cs, "#1a1a1a", "#ffffff"),
          style |-> ContentStyle(cs)]
    ELSE EmptyRec

getAdaptiveStatusBarStyle(cfg, cs) ==
    IF Flag(cfg, "adaptiveTheme") /\ Known(cs)
    THEN [backgroundColor |-> SchemeColor(cfg, cs, "#1a1a1a", "#ffffff"),
          style |-> ContentStyle(cs)]
    ELSE IF Flag(cfg, "autoDetectTheme") /\ Known(cs)
    THEN [style |-> ContentStyle(cs)]
    ELSE EmptyRec

\* the body shared by the six other getAdaptive*Style callbacks
AdaptiveBackground(cfg, cs, dark, light) ==
    IF Flag(cfg, "adaptiveTheme") /\ Known(cs)
    THEN [backgroundColor |-> SchemeColor(cfg, cs, dark, light)]
    ELSE IF Flag(cfg, "autoDetectTheme") /\ Known(cs)
    THEN [backgroundColor |-> SchemeColor(cfg, cs, dark, light)]
    ELSE EmptyRec

getAdaptiveAppBarStyle(cfg, cs) == AdaptiveBackground(cfg, cs, "#1a1a1a", "#ffffff")

getAdaptiveBodyStyle(cfg, cs) == AdaptiveBackground(cfg, cs, "#1a1a1a", "#ffffff")

getAdaptiveBottomNavStyle(cfg, cs) == AdaptiveBackground(cfg, cs, "#1a1a1a", "#ffffff")

getAdaptiveFABStyle(cfg, cs) == AdaptiveBackground(cfg, cs, "#007AFF", "#007AFF")

getAdaptiveBottomSheetStyle(cfg, cs) == AdaptiveBackground(cfg, cs, "#1a1a1a", "#ffffff")

getAdaptiveTopNavStyle(cfg, cs) == AdaptiveBackground(cfg, cs, "#1a1a1a", "#ffffff")

\* the adaptive*Style patch of region r
AdaptiveStyle(r, cfg, cs) ==
    CASE r = "statusBar" -> getAdaptiveStatusBarStyle(cfg, cs)
      [] r = "appBar" -> getAdaptiveAppBarStyle(cfg, cs)
      [] r = "body" -> getAdaptiveBodyStyle(cfg, cs)
      [] r = "bottomNavigationBar" -> getAdaptiveBottomNavStyle(cfg, cs)
      [] r = "floatingActionButton" -> getAdaptiveFABStyle(cfg, cs)
      [] r = "bottomSheet" -> getAdaptiveBottomSheetStyle(cfg, cs)
      [] r = "topNavigationBar" -> getAdaptiveTopNavStyle(cfg, cs)

\* adaptive.backgroundColor || cfg.backgroundColor
finalStatusBarBgColor(cfg, cs) ==
    OrStr(getAdaptiveStatusBarStyle(cfg, cs), "backgroundColor",
          Nullish(cfg, "backgroundColor", Undefined))

finalStatusBarStyle(cfg, cs) ==
    OrStr(getAdaptiveStatusBarStyle(cfg, cs), "style", Nullish(cfg, "style", Undefined))

finalAppBarBgColor(cfg, cs) ==
    OrStr(getAdaptiveAppBarStyle(cfg, cs), "backgroundColor",
          OrStr(cfg, "backgroundColor", "#ffffff"))

finalBodyBgColor(cfg, cs) ==
    OrStr(getAdaptiveBodyStyle(cfg, cs), "backgroundColor",
          OrStr(cfg, "backgroundColor", "#ffffff"))

finalBottomNavBgColor(cfg, cs) ==
    OrStr(getAdaptiveBottomNavStyle(cfg, cs), "backgroundColor",
          OrStr(cfg, "backgroundColor", "#ffffff"))

finalFABBgColor(cfg, cs) ==
    OrStr(getAdaptiveFABStyle(cfg, cs), "backgroundColor",
          OrStr(cfg, "backgroundColor", "#007AFF"))

finalBottomSheetBgColor(cfg, cs) ==
    OrStr(getAdaptiveBottomSheetStyle(cfg, cs), "backgroundColor",
          OrStr(cfg, "backgroundColor", "#ffffff"))

finalTopNavBgColor(cfg, cs) ==
    OrStr(getAdaptiveTopNavStyle(cfg, cs), "backgroundColor",
          OrStr(cfg, "backgroundColor", "#ffffff"))

(***************************************************************************)
(* Numbers and strings: a tab id is a number or a string                   *)
(***************************************************************************)
Num(n) == [t |-> "num", n |-> n, s |-> <<>>]

Str(s) == [t |-> "str", n |-> 0, s |-> s]

NoValue == [t |-> "undefined", n |-> 0, s |-> <<>>]

Digit(d) == CASE d = 0 -> "0" [] d = 1 -> "1" [] d = 2 -> "2" [] d = 3 -> "3"
              [] d = 4 -> "4" [] d = 5 -> "5" [] d = 6 -> "6" [] d = 7 -> "7"
              [] d = 8 -> "8" [] d = 9 -> "9"

RECURSIVE Decimal(_)
Decimal(n) == IF n < 10 THEN <<Digit(n)>> ELSE Append(Decimal(n \div 10), Digit(n % 10))

\* String(v)
String(v) ==
    CASE v.t = "num" -> Decimal(v.n)
      [] v.t = "str" -> v.s
      [] OTHER -> <<"u", "n", "d", "e", "f", "i", "n", "e", "d">>

(***************************************************************************)
(* Region renderers.  c is the render scope: the props, the platform,      *)
(* the color scheme, the writing direction and the component's state.      *)
(* A node records what a region contributes to the element tree:           *)
(*   kind      "none", "custom" (a caller's renderer ran) or "default"     *)
(*   wrapped   the scaffold put its own container around the output        *)
(*   reads     the config fields applied to the scaffold's own containers  *)
(*   onLayout  the container subscribes to layout measurement              *)
(*   scrollable the container is a ScrollView                              *)
(*   style     the computed style of the container                         *)
(*   args      what the caller's renderer was called with                  *)
(*   content   the renderer whose return value is rendered                 *)
(*   children  the cells of the region                                     *)
(***************************************************************************)
NoNode ==
    [kind |-> "none", wrapped |-> FALSE, reads |-> {}, onLayout |-> FALSE, scrollable |-> FALSE,
     style |-> EmptyRec, args |-> EmptyRec, content |-> "", children |-> <<>>]

\* [base, cfg.f] where the style entry is left out when cfg.f is undefined
Opt(cfg, f) == IF Has(cfg, f) THEN f :> cfg[f] ELSE EmptyRec

platformStatusBarConfig(c) == getPlatformStatusBarConfig(c.props.statusBar, c.os)

platformAppBarConfig(c) == getPlatformAppBarConfig(c.props.appBar, c.os)

platformBodyConfig(c) == getPlatformBodyConfig(c.props.body, c.os)

platformBottomNavConfig(c) == getPlatformBottomNavConfig(c.props.bottomNavigationBar, c.os)

platformFABConfig(c) == getPlatformFABConfig(c.props.floatingActionButton, c.os)

platformBottomSheetConfig(c) == getPlatformBottomSheetConfig(c.props.bottomSheet, c.os)

platformTopNavConfig(c) == getPlatformTopNavConfig(c.props.topNavigationBar, c.os)

\* typeof cfg.height === 'number' ? cfg.height : statusBarHeight
statusBarHeightValue(c) ==
    Nullish(platformStatusBarConfig(c), "height", c.statusBarHeight)

\* alignMap[cfg.contentAlignment || 'center'] || 'center'
StatusBarJustify(cfg) ==
    LET a == OrStr(cfg, "contentAlignment", "center")
    IN IF a \in {"flex-start", "center", "flex-end", "space-between"} THEN a ELSE "center"

\* renderStatusBarContent that tests the title before the content
renderStatusBarContentTitleFirst(cfg) ==
    IF OrStr(cfg, "title", "") # "" THEN <<"title">>
    ELSE IF Has(cfg, "content") THEN <<"content">>
    ELSE <<>>

\* if (cfg.content) return cfg.content; if (cfg.title) return renderStatusBarTitle()
renderStatusBarContent(cfg) ==
    IF Has(cfg, "content") THEN <<"content">>
    ELSE IF OrStr(cfg, "title", "") # "" THEN <<"title">>
    ELSE <<>>

StatusBarDefaultReads ==
    {"height", "backgroundColor", "adaptiveTheme", "contentAlignment", "zIndex",
     "elevated", "containerStyle", "content", "title", "titleStyle"}

\* the custom-renderer branch of renderStatusBarBackground
renderStatusBarBackgroundCustom(c) ==
    LET cfg == platformStatusBarConfig(c)
    IN [kind |-> "custom", wrapped |-> TRUE,
      reads |-> {"height", "zIndex", "containerStyle"},
      onLayout |-> TRUE, scrollable |-> FALSE,
      style |-> Opt(cfg, "containerStyle")
                @@ [height |-> statusBarHeightValue(c),
                    zIndex |-> OrNum(cfg, "zIndex", 100)],
      args |-> [height |-> statusBarHeightValue(c),
                backgroundColor |-> finalStatusBarBgColor(cfg, c.colorScheme)],
      content |-> cfg.renderCustomStatusBar,
      children |-> <<>>]

\* the default visual of renderStatusBarBackground
renderStatusBarBackgroundDefault(c) ==
    LET cfg == platformStatusBarConfig(c)
    IN [kind |-> "default", wrapped |-> FALSE,
      reads |-> StatusBarDefaultReads,
      onLayout |-> TRUE, scrollable |-> FALSE,
      style |-> Opt(cfg, "containerStyle")
                @@ [height |-> statusBarHeightValue(c),
                    backgroundColor |-> finalStatusBarBgColor(cfg, c.colorScheme),
                    justifyContent |-> StatusBarJustify(cfg),
                    zIndex |-> OrNum(cfg, "zIndex", 100),
                    elevated |-> Flag(cfg, "elevated")],
      args |-> EmptyRec,
      content |-> "default",
      children |-> renderStatusBarContent(cfg)]

renderStatusBarBackground(c) ==
    LET cfg == platformStatusBarConfig(c)
    IN IF Has(cfg, "renderCustomStatusBar")
       THEN renderStatusBarBackgroundCustom(c)
       ELSE renderStatusBarBackgroundDefault(c)

\* justifyMap[cfg.horizontalJustification || d] || d, with a mutant that has
\* no lookup table
JustifyPassThrough(cfg, f, d) == OrStr(cfg, f, d)

JustifyMap(cfg, f, d) ==
    LET j == OrStr(cfg, f, d)
    IN IF j \in {"flex-start", "center", "flex-end", "space-between",
                 "space-around", "space-evenly"}
       THEN j ELSE d

\* cfg.rtl ?? I18nManager.isRTL, with a mutant that uses || instead and one
\* that reads the system setting only
IsRTLOr(cfg, sys) == Flag(cfg, "rtl") \/ sys

IsRTLSystem(cfg, sys) == sys

IsRTL(cfg, sys) == Nullish(cfg, "rtl", sys)

AppBarChildren(cfg) ==
    (IF Has(cfg, "leading") THEN <<"leading">> ELSE <<>>)
    \o (IF Has(cfg, "center") THEN <<"center">> ELSE <<>>)
    \o (IF Has(cfg, "trailing") THEN <<"trailing">> ELSE <<>>)

AppBarDefaultReads ==
    {"height", "width", "backgroundColor", "rtl", "paddingHorizontal",
     "paddingVertical", "gap", "verticalAlignment", "horizontalJustification",
     "zIndex", "elevated", "containerStyle", "backgroundView",
     "leading", "center", "trailing"}

\* the custom-renderer branch of renderAppBar
renderAppBarCustom(c) ==
    LET cfg == platformAppBarConfig(c)
    IN [kind |-> "custom", wrapped |-> TRUE,
      reads |-> {"zIndex", "containerStyle"},
      onLayout |-> TRUE, scrollable |-> FALSE,
      style |-> Opt(cfg, "containerStyle")
                @@ [height |-> c.appBarHeight,
                    zIndex |-> OrNum(cfg, "zIndex", 1000)],
      args |-> [height |-> c.appBarHeight,
                backgroundColor |-> finalAppBarBgColor(cfg, c.colorScheme)],
      content |-> cfg.renderCustomAppBar,
      children |-> AppBarChildren(cfg)]

\* the default visual of renderAppBar
renderAppBarDefault(c) ==
    LET cfg == platformAppBarConfig(c)
    IN [kind |-> "default", wrapped |-> FALSE,
      reads |-> AppBarDefaultReads,
      onLayout |-> TRUE, scrollable |-> FALSE,
      style |-> Opt(cfg, "containerStyle")
                @@ [height |-> OrNum(cfg, "height", 56),
                    backgroundColor |-> OrStr(cfg, "backgroundColor", "#ffffff"),
                    flexDirection |-> IF IsRTL(cfg, c.isRTL) THEN "row-reverse" ELSE "row",
                    alignItems |-> OrStr(cfg, "verticalAlignment", "center"),
                    justifyContent |->
                        JustifyMap(cfg, "horizontalJustification", "space-between"),
                    zIndex |-> OrNum(cfg, "zIndex", 1000),
                    elevated |-> Flag(cfg, "elevated")],
      args |-> EmptyRec,
      content |-> "default",
      children |-> AppBarChildren(cfg)]

\* renderAppBar that renders nothing without the appBar prop, as the optional regions do
renderAppBarOptional(c) ==
    LET cfg == platformAppBarConfig(c)
    IN IF ~c.props.appBar.present \/ Flag(cfg, "hidden") THEN NoNode
       ELSE IF Has(cfg, "renderCustomAppBar")
       THEN renderAppBarCustom(c)
       ELSE renderAppBarDefault(c)

\* renderAppBar without its hidden check
renderAppBarShowsHidden(c) ==
    IF Has(platformAppBarConfig(c), "renderCustomAppBar")
    THEN renderAppBarCustom(c)
    ELSE renderAppBarDefault(c)

renderAppBar(c) ==
    LET cfg == platformAppBarConfig(c)
    IN IF Flag(cfg, "hidden") THEN NoNode
       ELSE IF Has(cfg, "renderCustomAppBar")
       THEN renderAppBarCustom(c)
       ELSE renderAppBarDefault(c)

BodyDefaultReads ==
    {"backgroundColor", "paddingHorizontal", "paddingVertical", "paddingTop",
     "paddingBottom", "paddingLeft", "paddingRight", "margin", "marginHorizontal",
     "marginVertical", "borderRadius", "borderColor", "borderWidth", "overflow",
     "opacity", "zIndex", "flexDirection", "justifyContent", "alignItems", "gap",
     "elevated", "containerStyle", "backgroundView", "view"}

\* the custom-renderer branch of renderBodyContent
renderBodyContentCustom(c) ==
    LET cfg == platformBodyConfig(c)
    IN [kind |-> "custom", wrapped |-> TRUE, reads |-> {},
      onLayout |-> TRUE, scrollable |-> FALSE,
      style |-> EmptyRec,
      args |-> [backgroundColor |-> finalBodyBgColor(cfg, c.colorScheme)],
      content |-> cfg.renderCustomBody,
      children |-> <<>>]

\* the default visual of renderBodyContent
renderBodyContentDefault(c) ==
    LET cfg == platformBodyConfig(c)
    IN [kind |-> "default", wrapped |-> FALSE,
      reads |-> BodyDefaultReads,
      onLayout |-> TRUE, scrollable |-> FALSE,
      style |-> Opt(cfg, "containerStyle") @@ Opt(cfg, "zIndex")
                @@ Opt(cfg, "paddingHorizontal") @@ Opt(cfg, "borderWidth")
                @@ [backgroundColor |-> finalBodyBgColor(cfg, c.colorScheme),
                    elevated |-> Flag(cfg, "elevated")],
      args |-> EmptyRec,
      content |-> "default",
      children |-> (IF Has(cfg, "backgroundView") THEN <<"backgroundView">> ELSE <<>>)
                   \o (IF Has(cfg, "view") THEN <<"view">> ELSE <<>>)]

renderBodyContent(c) ==
    LET cfg == platformBodyConfig(c)
    IN IF Has(cfg, "renderCustomBody")
       THEN renderBodyContentCustom(c)
       ELSE renderBodyContentDefault(c)

\* the safe-area inset without the useSafeArea test
SafeAreaIgnoresFlag(cfg, edge) ==
    IF Has(cfg, "safeAreaInsets") THEN Nullish(cfg.safeAreaInsets, edge, 0) ELSE 0

\* cfg.useSafeArea ? (cfg.safeAreaInsets?.edge ?? 0) : 0
SafeArea(cfg, edge) ==
    IF Flag(cfg, "useSafeArea")
    THEN (IF Has(cfg, "safeAreaInsets") THEN Nullish(cfg.safeAreaInsets, edge, 0) ELSE 0)
    ELSE 0

BottomSheetDefaultReads ==
    {"closeOnOverlayPress", "onClose", "overlayColor", "overlayStyle", "width",
     "height", "maxHeight", "minHeight", "backgroundColor", "borderRadius",
     "borderTopLeftRadius", "borderTopRightRadius", "borderBottomLeftRadius",
     "borderBottomRightRadius", "borderWidth", "borderTopWidth", "borderColor",
     "borderTopColor", "paddingBottom", "paddingLeft", "paddingRight",
     "useSafeArea", "safeAreaInsets", "shadowColor", "shadowOffset",
     "shadowOpacity", "shadowRadius", "elevation", "opacity", "overflow",
     "containerStyle", "padding", "paddingHorizontal", "paddingVertical",
     "paddingTop", "flexDirection", "justifyContent", "alignItems", "gap",
     "contentStyle", "header", "children", "footer"}

\* the custom-renderer branch of renderBottomSheet
renderBottomSheetCustom(c) ==
    LET cfg == platformBottomSheetConfig(c)
    IN [kind |-> "custom", wrapped |-> FALSE, reads |-> {},
      onLayout |-> FALSE, scrollable |-> FALSE, style |-> EmptyRec, args |-> EmptyRec,
      content |-> cfg.customBottomSheet, children |-> <<>>]

\* the default visual of renderBottomSheet
renderBottomSheetDefault(c) ==
    LET cfg == platformBottomSheetConfig(c)
    IN [kind |-> "default", wrapped |-> FALSE,
      reads |-> BottomSheetDefaultReads,
      onLayout |-> FALSE, scrollable |-> FALSE,
      style |-> Opt(cfg, "containerStyle") @@ Opt(cfg, "zIndex")
                @@ [backgroundColor |-> finalBottomSheetBgColor(cfg, c.colorScheme),
                    paddingBottom |-> Nullish(cfg, "paddingBottom", 0)
                                      + SafeArea(cfg, "bottom"),
                    paddingLeft |-> Nullish(cfg, "paddingLeft", 0)
                                    + SafeArea(cfg, "left"),
                    paddingRight |-> Nullish(cfg, "paddingRight", 0)
                                     + SafeArea(cfg, "right"),
                    translateY |-> c.slideAnim.value],
      args |-> EmptyRec,
      content |-> "default",
      children |-> <<>>]

\* renderBottomSheet that keeps the sheet while its animation is in flight
renderBottomSheetWhileSliding(c) ==
    LET cfg == platformBottomSheetConfig(c)
    IN IF ~c.props.bottomSheet.present
          \/ (~Flag(cfg, "visible") /\ ~c.slideAnim.running) THEN NoNode
       ELSE IF Has(cfg, "customBottomSheet")
       THEN renderBottomSheetCustom(c)
       ELSE renderBottomSheetDefault(c)

renderBottomSheet(c) ==
    LET cfg == platformBottomSheetConfig(c)
    IN IF ~c.props.bottomSheet.present \/ ~Flag(cfg, "visible") THEN NoNode
       ELSE IF Has(cfg, "customBottomSheet")
       THEN renderBottomSheetCustom(c)
       ELSE renderBottomSheetDefault(c)

FABDefaultReads ==
    {"size", "rotation", "scale", "transform", "width", "height", "minWidth",
     "minHeight", "maxWidth", "maxHeight", "backgroundColor", "borderRadius",
     "borderTopLeftRadius", "borderTopRightRadius", "borderBottomLeftRadius",
     "borderBottomRightRadius", "borderWidth", "borderTopWidth",
     "borderBottomWidth", "borderLeftWidth", "borderRightWidth", "borderColor",
     "borderTopColor", "borderBottomColor", "borderLeftColor",
     "borderRightColor", "borderStyle", "position", "bottom", "right", "left",
     "top", "useSafeArea", "safeAreaInsets", "padding", "paddingHorizontal",
     "paddingVertical", "paddingTop", "paddingBottom", "paddingLeft",
     "paddingRight", "margin", "marginHorizontal", "marginVertical",
     "marginTop", "marginBottom", "marginLeft", "marginRight", "shadowColor",
     "shadowOffset", "shadowOpacity", "shadowRadius", "elevation",
     "flexDirection", "justifyContent", "alignItems", "gap", "opacity",
     "overflow", "zIndex", "containerStyle", "backgroundView", "icon", "label",
     "labelStyle"}

\* cfg.size || 56
fabSize(cfg) == OrNum(cfg, "size", 56)

\* a length as a fraction, so that a half of an odd size is exact
Ratio(n, d) == [num |-> n, den |-> d]

\* cfg.borderRadius ?? fabSize / 2, with a mutant that uses || instead
fabBorderRadiusOr(cfg) ==
    IF OrNum(cfg, "borderRadius", 0) # 0 THEN Ratio(cfg.borderRadius, 1)
    ELSE Ratio(fabSize(cfg), 2)

fabBorderRadius(cfg) ==
    IF Has(cfg, "borderRadius") THEN Ratio(cfg.borderRadius, 1)
    ELSE Ratio(fabSize(cfg), 2)

\* the custom-renderer branch of renderFloatingActionButton
renderFloatingActionButtonCustom(c) ==
    LET cfg == platformFABConfig(c)
    IN [kind |-> "custom", wrapped |-> FALSE, reads |-> {},
      onLayout |-> FALSE, scrollable |-> FALSE, style |-> EmptyRec, args |-> EmptyRec,
      content |-> cfg.customFloatingActionButton, children |-> <<>>]

\* the default visual of renderFloatingActionButton
renderFloatingActionButtonDefault(c) ==
    LET cfg == platformFABConfig(c)
    IN [kind |-> "default", wrapped |-> FALSE,
      reads |-> FABDefaultReads,
      onLayout |-> FALSE, scrollable |-> FALSE,
      style |-> Opt(cfg, "containerStyle")
                @@ [width |-> OrNum(cfg, "width", fabSize(cfg)),
                    height |-> OrNum(cfg, "height", fabSize(cfg)),
                    backgroundColor |-> finalFABBgColor(cfg, c.colorScheme),
                    borderRadius |-> fabBorderRadius(cfg),
                    bottom |-> Nullish(cfg, "bottom", 16) + SafeArea(cfg, "bottom"),
                    right |-> Nullish(cfg, "right", 16) + SafeArea(cfg, "right"),
                    zIndex |-> OrNum(cfg, "zIndex", 9999)]
                @@ (IF Has(cfg, "left")
                    THEN [left |-> cfg.left + SafeArea(cfg, "left")] ELSE EmptyRec)
                @@ (IF Has(cfg, "top")
                    THEN [top |-> cfg.top + SafeArea(cfg, "top")] ELSE EmptyRec),
      args |-> EmptyRec,
      content |-> "default",
      children |-> <<>>]

\* renderFloatingActionButton without its custom-renderer branch
renderFABIgnoresCustom(c) ==
    IF ~c.props.floatingActionButton.present \/ Flag(platformFABConfig(c), "hidden")
    THEN NoNode
    ELSE renderFloatingActionButtonDefault(c)

renderFloatingActionButton(c) ==
    LET cfg == platformFABConfig(c)
    IN IF ~c.props.floatingActionButton.present \/ Flag(cfg, "hidden") THEN NoNode
       ELSE IF Has(cfg, "customFloatingActionButton")
       THEN renderFloatingActionButtonCustom(c)
       ELSE renderFloatingActionButtonDefault(c)

BottomNavDefaultReads ==
    {"height", "width", "backgroundColor", "rtl", "flexDirection", "flexWrap",
     "alignItems", "verticalAlignment", "alignContent", "justifyContent",
     "horizontalJustification", "paddingHorizontal", "paddingVertical",
     "paddingTop", "paddingBottom", "paddingLeft", "paddingRight",
     "useSafeArea", "safeAreaInsets", "margin", "marginHorizontal",
     "marginVertical", "marginTop", "marginBottom", "marginLeft", "marginRight",
     "gap", "borderRadius", "borderTopLeftRadius", "borderTopRightRadius",
     "borderBottomLeftRadius", "borderBottomRightRadius", "borderWidth",
     "borderTopWidth", "borderBottomWidth", "borderLeftWidth",
     "borderRightWidth", "borderColor", "borderTopColor", "borderBottomColor",
     "borderLeftColor", "borderRightColor", "borderStyle", "shadowColor",
     "shadowOffset", "shadowOpacity", "shadowRadius", "elevation", "position",
     "bottom", "left", "right", "top", "opacity", "overflow", "transform",
     "zIndex", "elevated", "containerStyle", "pointerEvents", "backgroundView",
     "children"}

\* the custom-renderer branch of renderBottomNavigationBar
renderBottomNavigationBarCustom(c) ==
    LET cfg == platformBottomNavConfig(c)
    IN [kind |-> "custom", wrapped |-> TRUE,
      reads |-> {"zIndex", "containerStyle"},
      onLayout |-> TRUE, scrollable |-> FALSE,
      style |-> Opt(cfg, "containerStyle")
                @@ [height |-> c.bottomNavHeight,
                    zIndex |-> OrNum(cfg, "zIndex", 1000)],
      args |-> [height |-> c.bottomNavHeight,
                backgroundColor |-> finalBottomNavBgColor(cfg, c.colorScheme)],
      content |-> cfg.renderCustom,
      children |-> <<>>]

\* the default visual of renderBottomNavigationBar
renderBottomNavigationBarDefault(c) ==
    LET cfg == platformBottomNavConfig(c)
    IN [kind |-> "default", wrapped |-> FALSE,
      reads |-> BottomNavDefaultReads,
      onLayout |-> TRUE, scrollable |-> FALSE,
      style |-> Opt(cfg, "containerStyle")
                @@ [height |-> OrNum(cfg, "height", 56),
                    backgroundColor |-> finalBottomNavBgColor(cfg, c.colorScheme),
                    flexDirection |->
                        OrStr(cfg, "flexDirection",
                              IF IsRTL(cfg, c.isRTL) THEN "row-reverse" ELSE "row"),
                    alignItems |->
                        OrStr(cfg, "alignItems",
                              OrStr(cfg, "verticalAlignment", "center")),
                    justifyContent |->
                        OrStr(cfg, "justifyContent",
                              JustifyMap(cfg, "horizontalJustification",
                                         "space-around")),
                    paddingBottom |-> Nullish(cfg, "paddingBottom", 0)
                                      + SafeArea(cfg, "bottom"),
                    paddingLeft |-> Nullish(cfg, "paddingLeft", 0)
                                    + SafeArea(cfg, "left"),
                    paddingRight |-> Nullish(cfg, "paddingRight", 0)
                                     + SafeArea(cfg, "right"),
                    zIndex |-> OrNum(cfg, "zIndex", 1000),
                    elevated |-> Flag(cfg, "elevated")],
      args |-> EmptyRec,
      content |-> "default",
      children |-> <<>>]

renderBottomNavigationBar(c) ==
    LET cfg == platformBottomNavConfig(c)
    IN IF ~c.props.bottomNavigationBar.present \/ Flag(cfg, "hidden") THEN NoNode
       ELSE IF Has(cfg, "renderCustom")
       THEN renderBottomNavigationBarCustom(c)
       ELSE renderBottomNavigationBarDefault(c)

TopNavDefaultReads ==
    {"height", "width", "backgroundColor", "flexDirection", "paddingHorizontal",
     "paddingVertical", "paddingTop", "paddingBottom", "paddingLeft",
     "paddingRight", "useSafeArea", "safeAreaInsets", "margin",
     "marginHorizontal", "marginVertical", "borderRadius",
     "borderTopLeftRadius", "borderTopRightRadius", "borderBottomLeftRadius",
     "borderBottomRightRadius", "borderWidth", "borderTopWidth",
     "borderBottomWidth", "borderLeftWidth", "borderRightWidth", "borderColor",
     "borderTopColor", "borderBottomColor", "borderLeftColor",
     "borderRightColor", "borderStyle", "shadowColor", "shadowOffset",
     "shadowOpacity", "shadowRadius", "elevation", "position", "top", "left",
     "right", "opacity", "overflow", "zIndex", "containerStyle",
     "justifyContent", "alignItems", "gap", "contentContainerStyle", "tabs",
     "activeTabId", "tabStyle", "activeTabStyle", "tabLabelStyle",
     "activeTabLabelStyle", "activeTabColor", "inactiveTabColor",
     "showIndicator", "indicatorPosition", "indicatorHeight", "indicatorWidth",
     "indicatorColor", "indicatorStyle", "scrollable",
     "showsHorizontalScrollIndicator"}

\* String(tab.id) === String(cfg.activeTabId), with a mutant that compares with ===
isActiveStrict(tab, cfg) == tab.id = Nullish(cfg, "activeTabId", NoValue)

isActive(tab, cfg) == String(tab.id) = String(Nullish(cfg, "activeTabId", NoValue))

TabCell(tab, cfg) ==
    [id |-> tab.id,
     isActive |-> isActive(tab, cfg),
     color |-> IF isActive(tab, cfg) THEN OrStr(cfg, "activeTabColor", "#007AFF")
               ELSE OrStr(cfg, "inactiveTabColor", "#666666"),
     indicator |-> Flag(cfg, "showIndicator") /\ isActive(tab, cfg)]

renderTabs(cfg) ==
    IF ~Has(cfg, "tabs") THEN <<>>
    ELSE [i \in 1..Len(cfg.tabs) |-> TabCell(cfg.tabs[i], cfg)]

\* the custom-renderer branch of renderTopNavigationBar
renderTopNavigationBarCustom(c) ==
    LET cfg == platformTopNavConfig(c)
    IN [kind |-> "custom", wrapped |-> FALSE, reads |-> {},
      onLayout |-> FALSE, scrollable |-> FALSE, style |-> EmptyRec, args |-> EmptyRec,
      content |-> cfg.customTopNavigationBar, children |-> <<>>]

\* the default visual of renderTopNavigationBar
renderTopNavigationBarDefault(c) ==
    LET cfg == platformTopNavConfig(c)
    IN [kind |-> "default", wrapped |-> FALSE,
      reads |-> TopNavDefaultReads,
      onLayout |-> FALSE, scrollable |-> Flag(cfg, "scrollable"),
      style |-> Opt(cfg, "containerStyle")
                @@ [height |-> OrNum(cfg, "height", 48),
                    backgroundColor |-> finalTopNavBgColor(cfg, c.colorScheme),
                    flexDirection |->
                        OrStr(cfg, "flexDirection",
                              IF c.isRTL THEN "row-reverse" ELSE "row"),
                    justifyContent |-> JustifyMap(cfg, "justifyContent", "flex-start"),
                    alignItems |-> OrStr(cfg, "alignItems", "center"),
                    paddingTop |-> Nullish(cfg, "paddingTop", 0) + SafeArea(cfg, "top"),
                    paddingLeft |-> Nullish(cfg, "paddingLeft", 0)
                                    + SafeArea(cfg, "left"),
                    paddingRight |-> Nullish(cfg, "paddingRight", 0)
                                     + SafeArea(cfg, "right"),
                    zIndex |-> OrNum(cfg, "zIndex", 1000)],
      args |-> EmptyRec,
      content |-> "default",
      children |-> renderTabs(cfg)]

renderTopNavigationBar(c) ==
    LET cfg == platformTopNavConfig(c)
    IN IF ~c.props.topNavigationBar.present \/ Flag(cfg, "hidden") THEN NoNode
       ELSE IF Has(cfg, "customTopNavigationBar")
       THEN renderTopNavigationBarCustom(c)
       ELSE renderTopNavigationBarDefault(c)

\* <RNStatusBar hidden={true} />
NativeHidden ==
    [hidden |-> TRUE, translucent |-> FALSE, backgroundColor |-> Undefined,
     barStyle |-> Undefined, animated |-> FALSE]

\* <RNStatusBar hidden={false} translucent=... backgroundColor=... barStyle=... animated=... />
NativeShown(c) ==
    LET cfg == platformStatusBarConfig(c)
    IN [hidden |-> FALSE,
        translucent |-> Flag(cfg, "translucent"),
        backgroundColor |-> IF Flag(cfg, "translucent") THEN "transparent"
                            ELSE finalStatusBarBgColor(cfg, c.colorScheme),
        barStyle |-> finalStatusBarStyle(cfg, c.colorScheme),
        animated |-> Flag(cfg, "animatedVisibility")]

\* the component's return value, with a mutant that has no status-bar-hidden branch
ScaffoldRenderAlwaysShown(c) ==
    [native |-> NativeShown(c),
     statusBar |-> renderStatusBarBackground(c),
     appBar |-> renderAppBar(c),
     topNavigationBar |-> renderTopNavigationBar(c),
     body |-> renderBodyContent(c),
     bottomNavigationBar |-> renderBottomNavigationBar(c),
     floatingActionButton |-> renderFloatingActionButton(c),
     bottomSheet |-> renderBottomSheet(c)]

ScaffoldRender(c) ==
    IF Flag(platformStatusBarConfig(c), "hidden")
    THEN [native |-> NativeHidden,
          statusBar |-> NoNode,
          appBar |-> renderAppBar(c),
          topNavigationBar |-> renderTopNavigationBar(c),
          body |-> renderBodyContent(c),
          bottomNavigationBar |-> renderBottomNavigationBar(c),
          floatingActionButton |-> renderFloatingActionButton(c),
          bottomSheet |-> NoNode]
    ELSE [native |-> NativeShown(c),
          statusBar |-> renderStatusBarBackground(c),
          appBar |-> renderAppBar(c),
          topNavigationBar |-> renderTopNavigationBar(c),
          body |-> renderBodyContent(c),
          bottomNavigationBar |-> renderBottomNavigationBar(c),
          floatingActionButton |-> renderFloatingActionButton(c),
          bottomSheet |-> renderBottomSheet(c)]

Scope(p, o, cs, rtl, sbh, abh, bnh, anim) ==
    [props |-> p, os |-> o, colorScheme |-> cs, isRTL |-> rtl,
     statusBarHeight |-> sbh, appBarHeight |-> abh, bottomNavHeight |-> bnh,
     slideAnim |-> anim]

(***************************************************************************)
(* The bottom-sheet effect                                                 *)
(***************************************************************************)
\* new Animated.Value(1000), no animation started
InitialAnim == [value |-> 1000, toValue |-> 1000, duration |-> 0, running |-> FALSE]

\* the effect with a hide branch that leaves an animation in flight alone
SheetEffectKeepsRunning(bs, o, prev, anim) ==
    LET cfg == getPlatformBottomSheetConfig(bs, o)
        isVisible == Flag(cfg, "visible")
        duration == OrNum(cfg, "animationDuration", 300)
    IN IF ~bs.present
       THEN [anim |-> anim, prev |-> prev, branch |-> "return"]
       ELSE IF isVisible /\ ~prev
       THEN [anim |-> [value |-> 1000, toValue |-> 0, duration |-> duration,
                       running |-> TRUE],
             prev |-> isVisible, branch |-> "show"]
       ELSE IF ~isVisible /\ prev /\ ~anim.running
       THEN [anim |-> [value |-> anim.value, toValue |-> 1000, duration |-> duration,
                       running |-> TRUE],
             prev |-> isVisible, branch |-> "hide"]
       ELSE [anim |-> anim, prev |-> isVisible, branch |-> "same"]

\* the effect without the comparison with the recorded visibility
SheetEffectEveryRun(bs, o, prev, anim) ==
    LET cfg == getPlatformBottomSheetConfig(bs, o)
        isVisible == Flag(cfg, "visible")
        duration == OrNum(cfg, "animationDuration", 300)
    IN IF ~bs.present
       THEN [anim |-> anim, prev |-> prev, branch |-> "return"]
       ELSE IF isVisible
       THEN [anim |-> [value |-> 1000, toValue |-> 0, duration |-> duration,
                       running |-> TRUE],
             prev |-> isVisible, branch |-> "show"]
       ELSE [anim |-> [value |-> anim.value, toValue |-> 1000, duration |-> duration,
                       running |-> TRUE],
             prev |-> isVisible, branch |-> "hide"]

\* the effect body: the slide animation, the recorded visibility and the branch taken
SheetEffect(bs, o, prev, anim) ==
    LET cfg == getPlatformBottomSheetConfig(bs, o)
        isVisible == Flag(cfg, "visible")
        duration == OrNum(cfg, "animationDuration", 300)
    IN IF ~bs.present
       THEN [anim |-> anim, prev |-> prev, branch |-> "return"]
       ELSE IF isVisible /\ ~prev
       THEN [anim |-> [value |-> 1000, toValue |-> 0, duration |-> duration,
                       running |-> TRUE],
             prev |-> isVisible, branch |-> "show"]
       ELSE IF ~isVisible /\ prev
       THEN [anim |-> [value |-> anim.value, toValue |-> 1000, duration |-> duration,
                       running |-> TRUE],
             prev |-> isVisible, branch |-> "hide"]
       ELSE [anim |-> anim, prev |-> isVisible, branch |-> "same"]

(***************************************************************************)
(* The tab press handler                                                   *)
(***************************************************************************)
Call(fn, arg) == [fn |-> fn, arg |-> arg]

\* handlePress without the try/catch around tab.onPress()
handlePressNoCatch(tab, cfg) ==
    IF Has(tab, "onPress") /\ tab.onPress = "throws"
    THEN [calls |-> <<Call("tab.onPress", NoValue)>>, uncaught |-> TRUE]
    ELSE [calls |-> (IF Has(tab, "onPress") THEN <<Call("tab.onPress", NoValue)>> ELSE <<>>)
                    \o (IF Has(cfg, "onTabChange")
                        THEN <<Call("onTabChange", tab.id)>> ELSE <<>>),
          uncaught |-> FALSE]

\* handlePress that calls the global onTabChange before the tab's own onPress
handlePressChangeFirst(tab, cfg) ==
    [calls |->
        (IF Has(cfg, "onTabChange")
         THEN <<Call("onTabChange", tab.id)>>
              \o (IF cfg.onTabChange = "throws"
                  THEN <<Call("console.warn", NoValue)>> ELSE <<>>)
         ELSE <<>>)
        \o (IF Has(tab, "onPress")
            THEN <<Call("tab.onPress", NoValue)>>
                 \o (IF tab.onPress = "throws" THEN <<Call("console.warn", NoValue)>> ELSE <<>>)
            ELSE <<>>),
     uncaught |-> FALSE]

\* the callbacks handlePress invokes, in order, and whether an exception leaves it
handlePress(tab, cfg) ==
    [calls |->
        (IF Has(tab, "onPress")
         THEN <<Call("tab.onPress", NoValue)>>
              \o (IF tab.onPress = "throws" THEN <<Call("console.warn", NoValue)>> ELSE <<>>)
         ELSE <<>>)
        \o (IF Has(cfg, "onTabChange")
            THEN <<Call("onTabChange", tab.id)>>
                 \o (IF cfg.onTabChange = "throws"
                     THEN <<Call("console.warn", NoValue)>> ELSE <<>>)
            ELSE <<>>),
     uncaught |-> FALSE]

(***************************************************************************)
(* The component's life: mount, re-render with new props, and the events   *)
(* the host environment delivers.                                          *)
(***************************************************************************)
\* RNStatusBar.currentHeight || 0: a device value on android, undefined on ios
CurrentHeight(o) == IF o = "android" THEN 24 ELSE 0

\* the first render and the first run of the effect
Mount(p, o, cs, rtl) ==
    LET e == SheetEffect(p.bottomSheet, o, FALSE, InitialAnim)
    IN /\ os = o
       /\ colorScheme = cs
       /\ isRTL = rtl
       /\ props = p
       /\ statusBarHeight = CurrentHeight(o)
       /\ appBarHeight = OrNum(p.appBar.cfg, "height", 56)
       /\ bottomNavHeight = OrNum(p.bottomNavigationBar.cfg, "height", 56)
       /\ slideAnim = e.anim
       /\ prevVisible = e.prev
       /\ tree = ScaffoldRender(Scope(p, o, cs, rtl, CurrentHeight(o),
                                      OrNum(p.appBar.cfg, "height", 56),
                                      OrNum(p.bottomNavigationBar.cfg, "height", 56),
                                      e.anim))
       /\ calls = <<>>
       /\ uncaught = FALSE

\* Rerender whose resolver merges the active override into the caller's record
RerenderMergesInPlace(r, p) ==
    LET e == IF r = "bottomSheet"
             THEN SheetEffect(p, os, prevVisible, slideAnim)
             ELSE [anim |-> slideAnim, prev |-> prevVisible, branch |-> "none"]
    IN /\ props' = [props EXCEPT ![r] = IF p.present THEN Obj(PlatformMerge(p, os)) ELSE p]
       /\ slideAnim' = e.anim
       /\ prevVisible' = e.prev
       /\ tree' = ScaffoldRender(Scope(props', os, colorScheme, isRTL, statusBarHeight,
                                       appBarHeight, bottomNavHeight, slideAnim'))
       /\ calls' = <<>>
       /\ uncaught' = FALSE
       /\ UNCHANGED <<os, colorScheme, isRTL, statusBarHeight, appBarHeight, bottomNavHeight>>

\* Rerender that re-initialises the measured heights from the new props
RerenderResetsHeights(r, p) ==
    LET e == IF r = "bottomSheet"
             THEN SheetEffect(p, os, prevVisible, slideAnim)
             ELSE [anim |-> slideAnim, prev |-> prevVisible, branch |-> "none"]
    IN /\ props' = [props EXCEPT ![r] = p]
       /\ slideAnim' = e.anim
       /\ prevVisible' = e.prev
       /\ appBarHeight' = OrNum(props'.appBar.cfg, "height", 56)
       /\ bottomNavHeight' = OrNum(props'.bottomNavigationBar.cfg, "height", 56)
       /\ tree' = ScaffoldRender(Scope(props', os, colorScheme, isRTL, statusBarHeight,
                                       appBarHeight', bottomNavHeight', slideAnim'))
       /\ calls' = <<>>
       /\ uncaught' = FALSE
       /\ UNCHANGED <<os, colorScheme, isRTL, statusBarHeight>>

\* the parent renders the component with a new object for prop r; the effect
\* runs when the bottomSheet dependency changed
Rerender(r, p) ==
    LET e == IF r = "bottomSheet"
             THEN SheetEffect(p, os, prevVisible, slideAnim)
             ELSE [anim |-> slideAnim, prev |-> prevVisible, branch |-> "none"]
    IN /\ props' = [props EXCEPT ![r] = p]
       /\ slideAnim' = e.anim
       /\ prevVisible' = e.prev
       /\ tree' = ScaffoldRender(Scope(props', os, colorScheme, isRTL, statusBarHeight,
                                       appBarHeight, bottomNavHeight, slideAnim'))
       /\ calls' = <<>>
       /\ uncaught' = FALSE
       /\ UNCHANGED <<os, colorScheme, isRTL, statusBarHeight, appBarHeight, bottomNavHeight>>

\* the system color scheme changes and useColorScheme re-renders the component
ColorSchemeChange(cs) ==
    /\ cs # colorScheme
    /\ colorScheme' = cs
    /\ tree' = ScaffoldRender(Scope(props, os, cs, isRTL, statusBarHeight,
                                    appBarHeight, bottomNavHeight, slideAnim))
    /\ calls' = <<>>
    /\ uncaught' = FALSE
    /\ UNCHANGED <<os, isRTL, props, statusBarHeight, appBarHeight, bottomNavHeight,
                   slideAnim, prevVisible>>

\* cfg.onLayoutChange?.(height)
LayoutCalls(cfg, fn, h) ==
    IF Has(cfg, "onLayoutChange") THEN <<Call(fn, Num(h))>> ELSE <<>>

\* the engine measures the status bar container
handleStatusBarLayout(h) ==
    /\ tree.statusBar.onLayout
    /\ statusBarHeight' = h
    /\ calls' = LayoutCalls(getPlatformStatusBarConfig(props.statusBar, os),
                            "statusBar.onLayoutChange", h)
    /\ tree' = ScaffoldRender(Scope(props, os, colorScheme, isRTL, h,
                                    appBarHeight, bottomNavHeight, slideAnim))
    /\ uncaught' = FALSE
    /\ UNCHANGED <<os, colorScheme, isRTL, props, appBarHeight, bottomNavHeight,
                   slideAnim, prevVisible>>

\* the engine measures the app bar container
handleAppBarLayout(h) ==
    /\ tree.appBar.onLayout
    /\ appBarHeight' = h
    /\ calls' = LayoutCalls(getPlatformAppBarConfig(props.appBar, os),
                            "appBar.onLayoutChange", h)
    /\ tree' = ScaffoldRender(Scope(props, os, colorScheme, isRTL, statusBarHeight,
                                    h, bottomNavHeight, slideAnim))
    /\ uncaught' = FALSE
    /\ UNCHANGED <<os, colorScheme, isRTL, props, statusBarHeight, bottomNavHeight,
                   slideAnim, prevVisible>>

\* the engine measures the bottom navigation bar container
handleBottomNavLayout(h) ==
    /\ tree.bottomNavigationBar.onLayout
    /\ bottomNavHeight' = h
    /\ calls' = LayoutCalls(getPlatformBottomNavConfig(props.bottomNavigationBar, os),
                            "bottomNavigationBar.onLayoutChange", h)
    /\ tree' = ScaffoldRender(Scope(props, os, colorScheme, isRTL, statusBarHeight,
                                    appBarHeight, h, slideAnim))
    /\ uncaught' = FALSE
    /\ UNCHANGED <<os, colorScheme, isRTL, props, statusBarHeight, appBarHeight,
                   slideAnim, prevVisible>>

\* the engine measures the body container: platformBodyConfig.onLayout?.(event)
handleBodyLayout ==
    /\ tree.body.onLayout
    /\ calls' = (IF Has(getPlatformBodyConfig(props.body, os), "onLayout")
                 THEN <<Call("body.onLayout", NoValue)>> ELSE <<>>)
    /\ uncaught' = FALSE
    /\ UNCHANGED <<os, colorScheme, isRTL, props, statusBarHeight, appBarHeight,
                   bottomNavHeight, slideAnim, prevVisible, tree>>

\* the user presses the i-th tab cell
TabPress(i) ==
    LET cfg == getPlatformTopNavConfig(props.topNavigationBar, os)
        r == handlePress(cfg.tabs[i], cfg)
    IN /\ tree.topNavigationBar.kind = "default"
       /\ i \in 1..Len(tree.topNavigationBar.children)
       /\ calls' = r.calls
       /\ uncaught' = r.uncaught
       /\ UNCHANGED <<os, colorScheme, isRTL, props, statusBarHeight, appBarHeight,
                      bottomNavHeight, slideAnim, prevVisible, tree>>

\* the timing animation started by the effect reaches its target value
AnimationFinish ==
    /\ slideAnim.running
    /\ slideAnim' = [slideAnim EXCEPT !.value = slideAnim.toValue, !.running = FALSE]
    /\ tree' = ScaffoldRender(Scope(props, os, colorScheme, isRTL, statusBarHeight,
                                    appBarHeight, bottomNavHeight, slideAnim'))
    /\ calls' = <<>>
    /\ uncaught' = FALSE
    /\ UNCHANGED <<os, colorScheme, isRTL, props, statusBarHeight, appBarHeight,
                   bottomNavHeight, prevVisible>>

\* the timing animation in flight moves the value halfway to its target
AnimationProgress ==
    /\ slideAnim.running
    /\ slideAnim.value \in {0, 500, 1000}
    /\ slideAnim.value # slideAnim.toValue
    /\ slideAnim' = [slideAnim EXCEPT !.value = (slideAnim.value + slideAnim.toValue) \div 2]
    /\ tree' = ScaffoldRender(Scope(props, os, colorScheme, isRTL, statusBarHeight,
                                    appBarHeight, bottomNavHeight, slideAnim'))
    /\ calls' = <<>>
    /\ uncaught' = FALSE
    /\ UNCHANGED <<os, colorScheme, isRTL, props, statusBarHeight, appBarHeight,
                   bottomNavHeight, prevVisible>>

AllUndef == [r \in Regions |-> Undef]

\* at most MaxConfigured regions are given a config at a time
MaxConfigured == 2

Configured(p) == Cardinality({r \in Regions : p[r].present})

\* the heights the engine reports
MeasuredHeights == {60}

(***************************************************************************)
(* SpecRegions: the component driven with configs that hide regions,       *)
(* supply custom renderers and style the containers.                       *)
(***************************************************************************)
Styled(rec) == Obj(rec @@ [containerStyle |-> "cs", zIndex |-> 7, elevated |-> TRUE])

RegionConfigs(r) ==
    CASE r = "statusBar" ->
            {Undef,
             Obj([hidden |-> TRUE, onLayoutChange |-> "fn"]),
             Styled([renderCustomStatusBar |-> "customStatusBar"]),
             Obj([onLayoutChange |-> "fn", ios |-> [hidden |-> TRUE]])}
      [] r = "appBar" ->
            {Undef,
             Obj([hidden |-> TRUE, onLayoutChange |-> "fn"]),
             Styled([renderCustomAppBar |-> "customAppBar"]),
             Obj([renderCustomAppBar |-> "customAppBar", android |-> [hidden |-> TRUE]])}
      [] r = "body" ->
            {Undef,
             Obj([hidden |-> TRUE]),
             Styled([renderCustomBody |-> "customBody"]),
             Styled([view |-> "view"])}
      [] r = "bottomNavigationBar" ->
            {Undef,
             Obj([hidden |-> TRUE, onLayoutChange |-> "fn"]),
             Styled([renderCustom |-> "customBottomNav"]),
             Obj([ios |-> [hidden |-> TRUE]])}
      [] r = "floatingActionButton" ->
            {Undef,
             Obj(EmptyRec),
             Styled([customFloatingActionButton |-> "customFAB"]),
             Obj([customFloatingActionButton |-> "customFAB", hidden |-> TRUE])}
      [] r = "bottomSheet" ->
            {Undef,
             Obj([hidden |-> TRUE]),
             Obj([visible |-> TRUE, hidden |-> TRUE]),
             Styled([visible |-> TRUE, customBottomSheet |-> "customSheet"])}
      [] r = "topNavigationBar" ->
            {Undef,
             Obj(EmptyRec),
             Styled([customTopNavigationBar |-> "customTopNav"]),
             Obj([customTopNavigationBar |-> "customTopNav", android |-> [hidden |-> TRUE]])}

InitRegions ==
    \E o \in {"ios", "android"} : \E r \in Regions : \E p \in RegionConfigs(r) :
        Mount([AllUndef EXCEPT ![r] = p], o, "light", FALSE)

RegionsRerender ==
    \E r \in Regions : \E p \in RegionConfigs(r) :
        /\ Configured([props EXCEPT ![r] = p]) <= MaxConfigured
        /\ Rerender(r, p)

RegionsLayout ==
    \E h \in MeasuredHeights :
        \/ handleStatusBarLayout(h)
        \/ handleAppBarLayout(h)
        \/ handleBottomNavLayout(h)

NextRegions == RegionsRerender \/ RegionsLayout

SpecRegions == InitRegions /\ [][NextRegions]_vars

(***************************************************************************)
(* Claims checked under SpecRegions                                        *)
(***************************************************************************)
\* the resolved config of region r in the current state
Cfg(r) == PlatformConfig(r, props[r], os)

\* the regions whose config type has a hidden flag
HideableRegions ==
    {"statusBar", "appBar", "topNavigationBar", "bottomNavigationBar",
     "floatingActionButton"}

\* the regions that render nothing without a config
OptionalRegions ==
    {"bottomNavigationBar", "floatingActionButton", "bottomSheet", "topNavigationBar"}

\* the regions with a measured height and an onLayoutChange callback
MeasuredRegions == {"statusBar", "appBar", "bottomNavigationBar"}

MeasuredHeight(r) ==
    CASE r = "statusBar" -> statusBarHeight
      [] r = "appBar" -> appBarHeight
      [] r = "bottomNavigationBar" -> bottomNavHeight

LayoutChangeFn(r) ==
    CASE r = "statusBar" -> "statusBar.onLayoutChange"
      [] r = "appBar" -> "appBar.onLayoutChange"
      [] r = "bottomNavigationBar" -> "bottomNavigationBar.onLayoutChange"

LayoutChangeCalls(r, cs) == {i \in 1..Len(cs) : cs[i].fn = LayoutChangeFn(r)}

Absent(r) == r \in OptionalRegions /\ ~props[r].present

NoVisual(r) == tree[r].kind = "none" /\ ~tree[r].onLayout

HiddenRegionsRenderNothing ==
    \A r \in Regions :
        (r \in HideableRegions /\ Flag(Cfg(r), "hidden")) \/ Absent(r) => NoVisual(r)

\* C1 (amended): a hidden status bar, app bar, top nav, bottom nav or FAB, and an
\* absent bottom nav, FAB, bottom sheet or top nav, contributes no visual and no
\* layout subscription; its measured height is not updated and its
\* onLayoutChange is not invoked
C1_HiddenOrAbsentRendersNothing ==
    [][/\ HiddenRegionsRenderNothing
       /\ HiddenRegionsRenderNothing'
       /\ \A r \in MeasuredRegions :
             (Flag(Cfg(r), "hidden") \/ Absent(r))
             => /\ MeasuredHeight(r)' = MeasuredHeight(r)
                /\ LayoutChangeCalls(r, calls') = {}]_vars

\* C1 witness: the app bar is hidden and renders nothing while the engine
\* measures the status bar and its onLayoutChange is invoked
C1_Witness ==
    /\ Flag(Cfg("appBar"), "hidden")
    /\ NoVisual("appBar")
    /\ appBarHeight = 56
    /\ calls = <<Call("statusBar.onLayoutChange", Num(60))>>

\* C1 as stated: hidden=true hides each of the seven regions, the body and the
\* bottom sheet included
C1_Original_AllSevenHide ==
    \A r \in Regions : Flag(Cfg(r), "hidden") \/ Absent(r) => NoVisual(r)

CustomRenderer(r) ==
    CASE r = "statusBar" -> "renderCustomStatusBar"
      [] r = "appBar" -> "renderCustomAppBar"
      [] r = "body" -> "renderCustomBody"
      [] r = "bottomNavigationBar" -> "renderCustom"
      [] r = "floatingActionButton" -> "customFloatingActionButton"
      [] r = "bottomSheet" -> "customBottomSheet"
      [] r = "topNavigationBar" -> "customTopNavigationBar"

\* a custom renderer is supplied and the region's own config does not hide it
CustomAndShown(r) ==
    /\ Has(Cfg(r), CustomRenderer(r))
    /\ r \in HideableRegions => ~Flag(Cfg(r), "hidden")
    /\ r \in OptionalRegions => props[r].present
    /\ r = "bottomSheet" => Flag(Cfg(r), "visible")

\* the config fields the scaffold's own wrapper applies around a custom renderer
WrapperFields(r) ==
    CASE r = "statusBar" -> {"height", "zIndex", "containerStyle"}
      [] r \in {"appBar", "bottomNavigationBar"} -> {"zIndex", "containerStyle"}
      [] OTHER -> {}

C9_StatusBarHidden ==
    Flag(Cfg("statusBar"), "hidden") =>
        /\ tree.body.kind # "none"
        /\ ~Flag(Cfg("appBar"), "hidden") => tree.appBar.kind # "none"
        /\ tree.statusBar = NoNode
        /\ tree.native.hidden = TRUE

\* C9 witness: the status bar is hidden and a custom app bar is rendered
C9_Witness ==
    /\ Flag(Cfg("statusBar"), "hidden")
    /\ tree.appBar.kind = "custom"
    /\ tree.body.kind = "default"
    /\ tree.native.hidden

\* the regions that are rendered without a prop
AlwaysRegions == {"statusBar", "appBar", "body"}

\* C16: without the statusBar, appBar or body prop the region's default visual
\* is rendered from an empty record with the fixed defaults (app bar 56 high
\* on #ffffff, body on #ffffff); these regions render nothing only when
\* hidden; the four optional regions render nothing without their prop
C16_AlwaysRenderedRegions ==
    /\ \A r \in AlwaysRegions :
           /\ ~props[r].present => /\ Cfg(r) = EmptyRec
                                   /\ tree[r].kind = "default"
           /\ tree[r].kind = "none" => props[r].present /\ Flag(Cfg(r), "hidden")
    /\ ~props.statusBar.present => ~tree.native.hidden
    /\ ~props.appBar.present => /\ tree.appBar.style.height = 56
                                /\ tree.appBar.style.backgroundColor = "#ffffff"
    /\ ~props.body.present => tree.body.style.backgroundColor = "#ffffff"
    /\ \A r \in OptionalRegions : ~props[r].present => tree[r].kind = "none"

\* C16 witness: no prop at all is supplied and the app bar has been measured;
\* the status bar, the app bar at height 56 and the body are rendered
C16_Witness ==
    /\ props = AllUndef
    /\ appBarHeight = 60
    /\ tree.statusBar.kind = "default"
    /\ tree.appBar.kind = "default"
    /\ tree.appBar.style.height = 56
    /\ tree.body.kind = "default"
    /\ tree.bottomNavigationBar.kind = "none"

\* C19: without a contentAlignment in the resolved config the default status
\* bar visual lays its content out with 'space-between'
C19_ContentAlignmentDefault ==
    (tree.statusBar.kind = "default" /\ ~Has(Cfg("statusBar"), "contentAlignment"))
        => tree.statusBar.style.justifyContent = "space-between"

\* C25: whether a region is in the rendered tree depends on its own config
\* only: a bottom sheet supplied with visible true is rendered whether the
\* status bar is hidden or not, and the app bar, top nav, body, bottom nav and
\* FAB are rendered or not by their own prop and hidden flag
C25_RegionsIndependent ==
    /\ (props.bottomSheet.present /\ Flag(Cfg("bottomSheet"), "visible"))
           => tree.bottomSheet.kind # "none"
    /\ \A r \in {"appBar", "topNavigationBar", "bottomNavigationBar",
                  "floatingActionButton"} :
           tree[r].kind = "none"
               <=> \/ r \in OptionalRegions /\ ~props[r].present
                   \/ Flag(Cfg(r), "hidden")
    /\ tree.body.kind # "none"

(***************************************************************************)
(* SpecMerge: one region at a time is given a base record with per-OS      *)
(* overrides, on each of the platforms.                                    *)
(***************************************************************************)
Platforms == {"ios", "android", "web"}

MergeBases ==
    {b @@ h : b \in {EmptyRec, [backgroundColor |-> "#111111"]},
              h \in {EmptyRec, [height |-> 40]}}

IosOverrides ==
    {EmptyRec, [backgroundColor |-> "#222222"], [height |-> 48],
     [backgroundColor |-> "#222222", height |-> 48]}

AndroidOverrides == {[backgroundColor |-> "#333333"], [height |-> 44]}

MergeConfigs ==
    {Undef} \cup
    {Obj(b @@ i @@ a) :
        b \in MergeBases,
        i \in {EmptyRec} \cup {[ios |-> v] : v \in IosOverrides},
        a \in {EmptyRec} \cup {[android |-> v] : v \in AndroidOverrides}}

InitMerge ==
    \E o \in Platforms, r \in Regions, p \in MergeConfigs :
        Mount([AllUndef EXCEPT ![r] = p], o, "light", FALSE)

MergeRerender ==
    \E r \in Regions, p \in MergeConfigs :
        /\ \A q \in Regions \ {r} : ~props[q].present
        /\ Rerender(r, p)

NextMerge == MergeRerender

SpecMerge == InitMerge /\ [][NextMerge]_vars

\* the override record of base for platform o, empty when there is none
OverrideFor(base, o) == IF Has(base, o) THEN base[o] ELSE EmptyRec

Without(rec, k) == [f \in DOMAIN rec \ {k} |-> rec[f]]

\* C3: the OS-override merge is field-local (override fields win, the other
\* fields keep the base's value), idempotent (resolving the resolved record
\* again, with its own or with an empty override, changes no field) and an
\* override for the platform that is not active changes no field
C3_MergeFieldLocalIdempotent ==
    \A r \in Regions :
        props[r].present =>
            LET base == props[r].cfg
                ov == OverrideFor(base, os)
                res == PlatformConfig(r, props[r], os)
            IN /\ DOMAIN res = DOMAIN base \cup DOMAIN ov
               /\ \A f \in DOMAIN ov : res[f] = ov[f]
               /\ \A f \in DOMAIN base \ DOMAIN ov : res[f] = base[f]
               /\ PlatformConfig(r, Obj(res), os) = res
               /\ PlatformConfig(r, Obj(Without(res, os) @@ (os :> EmptyRec)), os)
                      = Without(res, os) @@ (os :> EmptyRec)
               /\ PlatformConfig(r, Obj(Without(res, os)), os) = Without(res, os)
               /\ \A other \in {"ios", "android"} \ {os} :
                      Without(PlatformConfig(r, Obj(Without(base, other)), os), other)
                          = Without(res, other)

\* C3 witness: on ios a status bar with base {backgroundColor, height}, an ios
\* override of backgroundColor and an android override of height resolves to
\* the ios backgroundColor and the base height
C3_Witness ==
    /\ os = "ios"
    /\ props.statusBar.present
    /\ {"ios", "android", "backgroundColor", "height"} \subseteq DOMAIN props.statusBar.cfg
    /\ props.statusBar.cfg.backgroundColor = "#111111"
    /\ props.statusBar.cfg.height = 40
    /\ props.statusBar.cfg.ios = [backgroundColor |-> "#222222"]
    /\ props.statusBar.cfg.android = [height |-> 44]
    /\ Cfg("statusBar").backgroundColor = "#222222"
    /\ Cfg("statusBar").height = 40
    /\ tree.statusBar.style.backgroundColor = "#222222"
    /\ tree.statusBar.style.height = 40

(***************************************************************************)
(* SpecTheme: one region at a time is given the theme flags and an         *)
(* explicit background color, under each color scheme.                     *)
(***************************************************************************)
ColorSchemes == {"light", "dark", "null"}

ThemeFlags(f) == {EmptyRec, f :> TRUE, f :> FALSE}

\* the bottom sheet is given visible so that its default visual is rendered
ThemeConfigs(r) ==
    {Undef} \cup
    {Obj(a @@ d @@ b @@ t @@ (IF r = "bottomSheet" THEN [visible |-> TRUE] ELSE EmptyRec)) :
        a \in ThemeFlags("adaptiveTheme"),
        d \in ThemeFlags("autoDetectTheme"),
        b \in {EmptyRec, [backgroundColor |-> "#123456"]},
        t \in IF r \in {"statusBar", "appBar"}
              THEN {EmptyRec, [onThemeChange |-> "fn"]} ELSE {EmptyRec}}

InitTheme ==
    \E o \in {"ios", "android"}, cs \in ColorSchemes, r \in Regions :
      \E p \in ThemeConfigs(r) :
        Mount([AllUndef EXCEPT ![r] = p], o, cs, FALSE)

ThemeRerender ==
    \E r \in Regions :
      \E p \in ThemeConfigs(r) :
        /\ \A q \in Regions \ {r} : ~props[q].present
        /\ Rerender(r, p)

ThemeSchemeChange == \E cs \in ColorSchemes : ColorSchemeChange(cs)

NextTheme == ThemeRerender \/ ThemeSchemeChange

SpecTheme == InitTheme /\ [][NextTheme]_vars

\* the patch of region r for the current props and color scheme
Patch(r) == AdaptiveStyle(r, Cfg(r), colorScheme)

\* the fixed scheme defaults of region r
DarkDefault(r) == IF r = "floatingActionButton" THEN "#007AFF" ELSE "#1a1a1a"

LightDefault(r) == IF r = "floatingActionButton" THEN "#007AFF" ELSE "#ffffff"

\* the background the adaptive and auto-detect branches emit
SchemeBackground(r) ==
    IF Has(Cfg(r), "backgroundColor") THEN Cfg(r).backgroundColor
    ELSE IF colorScheme = "dark" THEN DarkDefault(r) ELSE LightDefault(r)

\* the branch the flags and the color scheme select
ThemeBranch(r) ==
    IF colorScheme = "null" THEN "empty"
    ELSE IF Flag(Cfg(r), "adaptiveTheme") THEN "adaptive"
    ELSE IF Flag(Cfg(r), "autoDetectTheme") THEN "autoDetect"
    ELSE "empty"

\* C4: with adaptiveTheme and autoDetectTheme both set the patch equals the
\* patch with adaptiveTheme alone, for every explicit background and scheme;
\* the patch is the output of exactly the branch the flags select, adaptive
\* before auto-detect; with an undetermined color scheme the patch is empty
C4_AdaptivePriority ==
    \A r \in Regions :
        props[r].present =>
            LET cfg == Cfg(r)
                both == Spread(cfg, [adaptiveTheme |-> TRUE, autoDetectTheme |-> TRUE])
                alone == Without(Spread(cfg, [adaptiveTheme |-> TRUE]), "autoDetectTheme")
                off == Spread(cfg, [adaptiveTheme |-> TRUE, autoDetectTheme |-> FALSE])
            IN /\ AdaptiveStyle(r, both, colorScheme) = AdaptiveStyle(r, alone, colorScheme)
               /\ AdaptiveStyle(r, both, colorScheme) = AdaptiveStyle(r, off, colorScheme)
               /\ ThemeBranch(r) = "adaptive" =>
                      Patch(r) = (IF r = "statusBar"
                                  THEN [backgroundColor |-> SchemeBackground(r),
                                        style |-> ContentStyle(colorScheme)]
                                  ELSE [backgroundColor |-> SchemeBackground(r)])
               /\ ThemeBranch(r) = "autoDetect" =>
                      Patch(r) = (IF r = "statusBar"
                                  THEN [style |-> ContentStyle(colorScheme)]
                                  ELSE [backgroundColor |-> SchemeBackground(r)])
               /\ ThemeBranch(r) = "empty" => Patch(r) = EmptyRec
               /\ colorScheme = "null" => AdaptiveStyle(r, both, colorScheme) = EmptyRec

\* C4 witness: a status bar with both flags set under the dark scheme gets the
\* adaptive patch, background included, and the native bar is drawn with it
C4_Witness ==
    /\ colorScheme = "dark"
    /\ props.statusBar.present
    /\ Flag(Cfg("statusBar"), "adaptiveTheme")
    /\ Flag(Cfg("statusBar"), "autoDetectTheme")
    /\ ~Has(Cfg("statusBar"), "backgroundColor")
    /\ Patch("statusBar") = [backgroundColor |-> "#1a1a1a", style |-> "light-content"]
    /\ tree.native.backgroundColor = "#1a1a1a"
    /\ tree.native.barStyle = "light-content"

\* the fixed default background of region r; the status bar has none
FixedDefault(r) ==
    CASE r = "statusBar" -> Undefined
      [] r = "floatingActionButton" -> "#007AFF"
      [] OTHER -> "#ffffff"

\* C5: the background of every default visual is the patch's background when
\* the patch emits one, otherwise the resolved config's own backgroundColor,
\* otherwise the region's fixed default
C5_FinalBackground ==
    \A r \in Regions :
        tree[r].kind = "default" =>
            tree[r].style.backgroundColor =
                (IF Has(Patch(r), "backgroundColor") THEN Patch(r).backgroundColor
                 ELSE IF Has(Cfg(r), "backgroundColor") THEN Cfg(r).backgroundColor
                 ELSE FixedDefault(r))

\* C15: with autoDetectTheme set, adaptiveTheme unset and a known color scheme
\* the status bar's patch holds the content style only, so its background
\* stays the config's own backgroundColor; every other region's patch holds
\* the background the adaptive branch would emit
C15_AutoDetectPatch ==
    \A r \in Regions :
        (props[r].present /\ ThemeBranch(r) = "autoDetect") =>
            IF r = "statusBar"
            THEN /\ Patch(r) = [style |-> ContentStyle(colorScheme)]
                 /\ tree.native.barStyle = ContentStyle(colorScheme)
                 /\ tree.native.backgroundColor
                        = Nullish(Cfg(r), "backgroundColor", Undefined)
                 /\ tree.statusBar.style.backgroundColor
                        = Nullish(Cfg(r), "backgroundColor", Undefined)
            ELSE /\ Patch(r) = [backgroundColor |-> SchemeBackground(r)]
                 /\ Patch(r) = AdaptiveStyle(r, Spread(Cfg(r), [adaptiveTheme |-> TRUE]),
                                             colorScheme)

\* C15 witness: a status bar with autoDetectTheme alone and its own background
\* under the dark scheme gets light content on its own background
C15_Witness ==
    /\ colorScheme = "dark"
    /\ props.statusBar.present
    /\ ThemeBranch("statusBar") = "autoDetect"
    /\ Has(Cfg("statusBar"), "backgroundColor")
    /\ Patch("statusBar") = [style |-> "light-content"]
    /\ tree.native.barStyle = "light-content"
    /\ tree.native.backgroundColor = "#123456"

\* C20: when the system color scheme changes between light and dark and the
\* status bar (or app bar) has autoDetectTheme or adaptiveTheme set, the
\* region's onThemeChange callback is invoked with the new theme
C20_ThemeChangeCallback ==
    [][\A r \in {"statusBar", "appBar"} :
          (/\ colorScheme \in {"light", "dark"}
           /\ colorScheme' \in {"light", "dark"}
           /\ colorScheme' # colorScheme
           /\ Flag(Cfg(r), "adaptiveTheme") \/ Flag(Cfg(r), "autoDetectTheme")
           /\ Has(Cfg(r), "onThemeChange"))
          => \E k \in 1..Len(calls') :
                 /\ calls'[k].fn = (IF r = "statusBar" THEN "statusBar.onThemeChange"
                                    ELSE "appBar.onThemeChange")
                 /\ calls'[k].arg = Str(<<colorScheme'>>)]_vars

(***************************************************************************)
(* SpecSheet: the bottomSheet prop is shown, hidden, removed and given     *)
(* animation durations while the slide animation runs.                     *)
(***************************************************************************)
SheetConfigs ==
    {Undef} \cup
    {Obj(v @@ d) :
        v \in {EmptyRec, [visible |-> TRUE], [visible |-> FALSE],
               [visible |-> FALSE, ios |-> [visible |-> TRUE]]},
        d \in {EmptyRec, [animationDuration |-> 0], [animationDuration |-> 500]}}

InitSheet ==
    \E o \in {"ios", "android"}, p \in SheetConfigs :
        Mount([AllUndef EXCEPT !["bottomSheet"] = p], o, "light", FALSE)

SheetRerender ==
    \E p \in SheetConfigs : p # props.bottomSheet /\ Rerender("bottomSheet", p)

NextSheet == SheetRerender \/ AnimationProgress \/ AnimationFinish

SpecSheet == InitSheet /\ [][NextSheet]_vars

\* the resolved visible flag of props p on platform o
ResolvedVisible(p, o) == Flag(getPlatformBottomSheetConfig(p.bottomSheet, o), "visible")

\* the configured animation duration of props p on platform o, 300 when none is
ConfiguredDuration(p, o) ==
    Nullish(getPlatformBottomSheetConfig(p.bottomSheet, o), "animationDuration", 300)

\* C6: on every false->true transition of the resolved visible flag the slide
\* value is placed at 1000 and an animation toward 0 starts with the
\* configured duration (300 when none is configured); on every true->false
\* transition an animation toward 1000 starts with that duration
C6_SlideFollowsVisibilityEdges ==
    [][/\ (~ResolvedVisible(props, os) /\ ResolvedVisible(props', os'))
          => slideAnim' = [value |-> 1000, toValue |-> 0,
                           duration |-> ConfiguredDuration(props', os'),
                           running |-> TRUE]
       /\ (ResolvedVisible(props, os) /\ ~ResolvedVisible(props', os'))
          => /\ slideAnim'.running
             /\ slideAnim'.toValue = 1000
             /\ slideAnim'.duration = ConfiguredDuration(props', os')]_vars

\* the value the slide animation is at, or is heading to while it runs
SlideTarget == IF slideAnim.running THEN slideAnim.toValue ELSE slideAnim.value

\* a timing animation that was started runs to its end
SpecSheetFair == SpecSheet /\ WF_vars(AnimationFinish)

\* the slide value has settled where the visibility of the supplied sheet asks
Settled ==
    props.bottomSheet.present =>
        /\ ~slideAnim.running
        /\ slideAnim.value = (IF ResolvedVisible(props, os) THEN 0 ELSE 1000)

C24_SheetRenderedOnlyWhileVisible ==
    /\ tree.bottomSheet.kind # "none" =>
           props.bottomSheet.present /\ ResolvedVisible(props, os)
    /\ (slideAnim.running /\ slideAnim.toValue = 1000 /\ ~ResolvedVisible(props, os))
           => tree.bottomSheet.kind = "none"

\* C24 witness: the closing animation is halfway and the sheet is not in the tree
C24_Witness ==
    /\ props.bottomSheet.present
    /\ ~ResolvedVisible(props, os)
    /\ slideAnim.running
    /\ slideAnim.toValue = 1000
    /\ slideAnim.value = 500
    /\ tree.bottomSheet.kind = "none"

\* the branch the effect takes when the props become p
EffectBranch(p) == SheetEffect(p.bottomSheet, os, prevVisible, slideAnim).branch

\* C29: every slide animation started on a visibility edge runs with the
\* configured animationDuration, 0 included, and with 300 only when no
\* duration is configured
C29_DurationAsConfigured ==
    [][(props' # props /\ EffectBranch(props') \in {"show", "hide"})
          => slideAnim'.duration = ConfiguredDuration(props', os')]_vars

\* C30: a run of the effect in which the resolved visible flag equals the
\* recorded visibility starts no animation and keeps the slide value; a run
\* without the bottomSheet prop keeps the animation and the recorded
\* visibility; after every run with the prop the recorded visibility is the
\* resolved visible flag
C30_AnimationsOnlyOnEdges ==
    [][props' # props =>
          /\ ~props'.bottomSheet.present
                 => slideAnim' = slideAnim /\ prevVisible' = prevVisible
          /\ (props'.bottomSheet.present /\ ResolvedVisible(props', os') = prevVisible)
                 => slideAnim' = slideAnim
          /\ props'.bottomSheet.present
                 => prevVisible' = ResolvedVisible(props', os')]_vars

\* C30 witness: the animationDuration was changed to 500 while the show
\* animation started with 300 was halfway, and that animation still runs
C30_Witness ==
    /\ props.bottomSheet.present
    /\ ResolvedVisible(props, os)
    /\ prevVisible
    /\ ConfiguredDuration(props, os) = 500
    /\ slideAnim = [value |-> 500, toValue |-> 0, duration |-> 300, running |-> TRUE]

(***************************************************************************)
(* SpecTabs: a top navigation bar with up to MaxTabs tabs whose ids are    *)
(* numbers and strings and whose callbacks return or throw; the user       *)
(* presses tabs and the parent moves the active tab id.                    *)
(***************************************************************************)
MaxTabs == 2

TabIds == {Num(1), Str(<<"1">>), Num(10), Str(<<"0", "1">>)}

ActiveIds == TabIds \cup {Num(2), Str(<<"1", "0">>)}

Callbacks(f) == {EmptyRec, f :> "returns", f :> "throws"}

TabSet == {[id |-> i, label |-> "label"] @@ h : i \in TabIds, h \in Callbacks("onPress")}

TabLists == UNION {[1..n -> TabSet] : n \in 1..MaxTabs}

TabConfigs ==
    {Obj([tabs |-> t] @@ h @@ a) :
        t \in TabLists,
        h \in Callbacks("onTabChange"),
        a \in {EmptyRec} \cup {[activeTabId |-> i] : i \in ActiveIds}}

InitTabs ==
    \E p \in TabConfigs :
        Mount([AllUndef EXCEPT !["topNavigationBar"] = p], "android", "light", FALSE)

TabsPress == \E i \in 1..MaxTabs : TabPress(i)

\* the parent re-renders with another activeTabId
TabsSetActive ==
    \E a \in ActiveIds :
        /\ Nullish(props.topNavigationBar.cfg, "activeTabId", NoValue) # a
        /\ Rerender("topNavigationBar",
                    Obj(Spread(props.topNavigationBar.cfg, [activeTabId |-> a])))

NextTabs == TabsPress \/ TabsSetActive

SpecTabs == InitTabs /\ [][NextTabs]_vars

\* the calls of function fn in the sequence cs
CallsOf(fn, cs) == {k \in 1..Len(cs) : cs[k].fn = fn}

\* C7: a press of a tab whose onPress throws still invokes onTabChange exactly
\* once with that tab's id, the exception is caught and logged and does not
\* leave the handler; an exception thrown by onTabChange is caught as well
C7_TabPressCatchesExceptions ==
    [][\A i \in 1..MaxTabs :
          TabPress(i) =>
              LET cfg == Cfg("topNavigationBar")
                  tab == cfg.tabs[i]
              IN /\ ~uncaught'
                 /\ Has(cfg, "onTabChange") =>
                        /\ Cardinality(CallsOf("onTabChange", calls')) = 1
                        /\ \A k \in CallsOf("onTabChange", calls') : calls'[k].arg = tab.id
                 /\ ~Has(cfg, "onTabChange") => CallsOf("onTabChange", calls') = {}
                 /\ Cardinality(CallsOf("tab.onPress", calls'))
                        = (IF Has(tab, "onPress") THEN 1 ELSE 0)
                 /\ Cardinality(CallsOf("console.warn", calls'))
                        = (IF Has(tab, "onPress") /\ tab.onPress = "throws" THEN 1 ELSE 0)
                          + (IF Has(cfg, "onTabChange") /\ cfg.onTabChange = "throws"
                             THEN 1 ELSE 0)]_vars

\* C7 witness: a tab with id 1 whose onPress throws was pressed; the exception
\* was logged, onTabChange was invoked with 1 and threw, and that was logged
C7_Witness ==
    /\ ~uncaught
    /\ Has(Cfg("topNavigationBar"), "onTabChange")
    /\ Cfg("topNavigationBar").onTabChange = "throws"
    /\ calls = <<Call("tab.onPress", NoValue), Call("console.warn", NoValue),
                 Call("onTabChange", Num(1)), Call("console.warn", NoValue)>>

\* the pairs of distinct ids that String() maps to the same text
SameText(a, b) ==
    \/ a = b
    \/ {a, b} \in {{Num(1), Str(<<"1">>)}, {Num(10), Str(<<"1", "0">>)}}

\* C8: a tab is highlighted as active exactly when String(tab id) equals
\* String(active id), for ids that are numbers or strings
C8_ActiveMatchCoerces ==
    LET cfg == Cfg("topNavigationBar")
    IN (tree.topNavigationBar.kind = "default" /\ Has(cfg, "activeTabId")) =>
           /\ Len(tree.topNavigationBar.children) = Len(cfg.tabs)
           /\ \A i \in 1..Len(cfg.tabs) :
                  LET cell == tree.topNavigationBar.children[i]
                  IN /\ cell.id = cfg.tabs[i].id
                     /\ cell.isActive <=> SameText(cfg.tabs[i].id, cfg.activeTabId)
                     /\ cell.color = (IF SameText(cfg.tabs[i].id, cfg.activeTabId)
                                      THEN "#007AFF" ELSE "#666666")

\* C8 witness: the tab with id 1 is active under the active id "1" and the
\* tab with id 10 next to it is not
C8_Witness ==
    /\ tree.topNavigationBar.kind = "default"
    /\ Has(Cfg("topNavigationBar"), "activeTabId")
    /\ Cfg("topNavigationBar").activeTabId = Str(<<"1">>)
    /\ Len(tree.topNavigationBar.children) = 2
    /\ tree.topNavigationBar.children[1].id = Num(1)
    /\ tree.topNavigationBar.children[1].isActive
    /\ tree.topNavigationBar.children[2].id = Num(10)
    /\ ~tree.topNavigationBar.children[2].isActive

\* C23: on every tab press, a press of the active tab included, the tab's
\* own onPress, if supplied, is invoked first and exactly once, then the
\* global onTabChange, if supplied, exactly once with the pressed tab's id,
\* never before the tab's onPress; the press leaves the rendered tabs and
\* their active flags as they are
C23_TabPressOrdering ==
    [][/\ \A i \in 1..MaxTabs :
             TabPress(i) =>
                 LET cfg == Cfg("topNavigationBar")
                     tab == cfg.tabs[i]
                 IN /\ Cardinality(CallsOf("tab.onPress", calls'))
                           = (IF Has(tab, "onPress") THEN 1 ELSE 0)
                    /\ Cardinality(CallsOf("onTabChange", calls'))
                           = (IF Has(cfg, "onTabChange") THEN 1 ELSE 0)
                    /\ Has(tab, "onPress") => calls'[1] = Call("tab.onPress", NoValue)
                    /\ \A k \in CallsOf("onTabChange", calls') :
                           /\ calls'[k].arg = tab.id
                           /\ \A j \in CallsOf("tab.onPress", calls') : j < k
       /\ props' = props => tree'.topNavigationBar = tree.topNavigationBar]_vars

\* C23 witness: the only tab, with id 1, is the active one and was pressed;
\* its onPress was invoked and then onTabChange with 1, and it is still active
C23_Witness ==
    /\ tree.topNavigationBar.kind = "default"
    /\ Len(tree.topNavigationBar.children) = 1
    /\ tree.topNavigationBar.children[1].id = Num(1)
    /\ tree.topNavigationBar.children[1].isActive
    /\ calls = <<Call("tab.onPress", NoValue), Call("onTabChange", Num(1))>>

(***************************************************************************)
(* SpecDirection: an app bar with an rtl flag in its base record and in    *)
(* its per-OS overrides, under both system writing directions.             *)
(***************************************************************************)
RtlFlags == {EmptyRec, [rtl |-> TRUE], [rtl |-> FALSE]}

DirectionConfigs ==
    {Obj(b @@ i @@ a @@ l @@ t) :
        b \in RtlFlags,
        i \in {EmptyRec} \cup {[ios |-> v] : v \in RtlFlags \ {EmptyRec}},
        a \in {EmptyRec} \cup {[android |-> v] : v \in RtlFlags \ {EmptyRec}},
        l \in {EmptyRec, [leading |-> "leading"]},
        t \in {EmptyRec, [trailing |-> "trailing"]}}

InitDirection ==
    \E o \in {"ios", "android"}, rtl \in BOOLEAN, p \in DirectionConfigs :
        Mount([AllUndef EXCEPT !["appBar"] = p], o, "light", rtl)

DirectionRerender ==
    \E p \in DirectionConfigs : p # props.appBar /\ Rerender("appBar", p)

NextDirection == DirectionRerender

SpecDirection == InitDirection /\ [][NextDirection]_vars

LifecycleRegions ==
    {"statusBar", "appBar", "bottomNavigationBar", "bottomSheet", "topNavigationBar"}

LifecycleConfigs(r) ==
    CASE r = "statusBar" ->
            {Undef,
             Obj([height |-> 40, onLayoutChange |-> "fn"]),
             Obj([renderCustomStatusBar |-> "customStatusBar", ios |-> [height |-> 48]])}
      [] r = "appBar" ->
            {Undef,
             Obj([height |-> 40]),
             Obj([renderCustomAppBar |-> "customAppBar", ios |-> [height |-> 48]])}
      [] r = "bottomNavigationBar" ->
            {Undef,
             Obj([height |-> 40]),
             Obj([renderCustom |-> "customBottomNav", android |-> [height |-> 44]])}
      [] r = "bottomSheet" ->
            {Undef, Obj([visible |-> TRUE]), Obj([visible |-> FALSE])}
      [] r = "topNavigationBar" ->
            {Undef,
             Obj([tabs |-> <<[id |-> Num(1), label |-> "label", onPress |-> "throws"]>>,
                  onTabChange |-> "returns"])}

InitLifecycle ==
    \E o \in {"ios", "android"}, r \in LifecycleRegions :
      \E p \in LifecycleConfigs(r) :
        Mount([AllUndef EXCEPT ![r] = p], o, "light", FALSE)

LifecycleRerender ==
    \E r \in LifecycleRegions :
      \E p \in LifecycleConfigs(r) :
        /\ p # props[r]
        /\ Configured([props EXCEPT ![r] = p]) <= MaxConfigured
        /\ Rerender(r, p)

LifecycleSchemeChange == \E cs \in {"light", "dark"} : ColorSchemeChange(cs)

LifecycleStatusBarLayout == \E h \in MeasuredHeights : handleStatusBarLayout(h)

LifecycleAppBarLayout == \E h \in MeasuredHeights : handleAppBarLayout(h)

LifecycleBottomNavLayout == \E h \in MeasuredHeights : handleBottomNavLayout(h)

LifecycleTabPress == TabPress(1)

NextLifecycle ==
    \/ LifecycleRerender
    \/ LifecycleSchemeChange
    \/ LifecycleStatusBarLayout
    \/ LifecycleAppBarLayout
    \/ LifecycleBottomNavLayout
    \/ LifecycleTabPress

SpecLifecycle == InitLifecycle /\ [][NextLifecycle]_vars

\* C11: the height applied to the container of the status bar, app bar and
\* bottom nav, and handed to the custom renderer, is the explicit height of
\* the resolved config when there is one and the measured height otherwise
C11_EffectiveHeight ==
    \A r \in MeasuredRegions :
        tree[r].kind # "none" =>
            LET h == IF Has(Cfg(r), "height") THEN Cfg(r).height ELSE MeasuredHeight(r)
            IN /\ tree[r].style.height = h
               /\ tree[r].kind = "custom" => tree[r].args.height = h

\* the heights useState is initialised with
MountHeights ==
    /\ statusBarHeight = CurrentHeight(os)
    /\ appBarHeight = (IF Has(props.appBar.cfg, "height") THEN props.appBar.cfg.height
                       ELSE 56)
    /\ bottomNavHeight = (IF Has(props.bottomNavigationBar.cfg, "height")
                          THEN props.bottomNavigationBar.cfg.height ELSE 56)

\* C17: the stored heights start as the system status bar height (or 0) and
\* the configured app bar and bottom nav heights (or 56), and only a layout
\* callback of the region changes one: re-renders with new props, color
\* scheme changes, tab presses and sheet visibility flips keep all three
C17_HeightsChangeOnlyOnLayout ==
    /\ MountHeights
    /\ [][/\ statusBarHeight' # statusBarHeight
             => \E h \in MeasuredHeights : handleStatusBarLayout(h)
          /\ appBarHeight' # appBarHeight
             => \E h \in MeasuredHeights : handleAppBarLayout(h)
          /\ bottomNavHeight' # bottomNavHeight
             => \E h \in MeasuredHeights : handleBottomNavLayout(h)]_vars

\* C17 witness: the app bar was mounted without a height and is now configured
\* with height 40 under the dark scheme; the stored height is still 56
C17_Witness ==
    /\ colorScheme = "dark"
    /\ props.appBar.present
    /\ Has(props.appBar.cfg, "height") /\ props.appBar.cfg.height = 40
    /\ appBarHeight = 56
    /\ statusBarHeight = CurrentHeight(os)

InsetRegions ==
    {"bottomNavigationBar", "floatingActionButton", "bottomSheet", "topNavigationBar"}

InsetRecords ==
    {EmptyRec,
     [safeAreaInsets |-> [bottom |-> 34]],
     [safeAreaInsets |-> [top |-> 47, bottom |-> 34, left |-> 5, right |-> 7]]}

OwnOffsets(r) ==
    IF r = "floatingActionButton"
    THEN {EmptyRec, [bottom |-> 20, right |-> 24], [top |-> 10, left |-> 12]}
    ELSE {EmptyRec,
          [paddingTop |-> 1, paddingBottom |-> 2, paddingLeft |-> 3, paddingRight |-> 4]}

InsetConfigs(r) ==
    {Undef} \cup
    {Obj(u @@ i @@ p @@ (IF r = "bottomSheet" THEN [visible |-> TRUE] ELSE EmptyRec)) :
        u \in {EmptyRec, [useSafeArea |-> TRUE], [useSafeArea |-> FALSE]},
        i \in InsetRecords,
        p \in OwnOffsets(r)}

InitInsets ==
    \E o \in {"ios", "android"}, r \in InsetRegions :
      \E p \in InsetConfigs(r) :
        Mount([AllUndef EXCEPT ![r] = p], o, "light", FALSE)

InsetsRerender ==
    \E r \in InsetRegions :
      \E p \in InsetConfigs(r) :
        /\ \A q \in Regions \ {r} : ~props[q].present
        /\ Rerender(r, p)

NextInsets == InsetsRerender

SpecInsets == InitInsets /\ [][NextInsets]_vars

\* the edges whose padding or offset region r computes
HandledEdges(r) ==
    CASE r = "topNavigationBar" -> {"top", "left", "right"}
      [] r = "floatingActionButton" ->
            {"bottom", "right"} \cup ({"left", "top"} \cap DOMAIN Cfg(r))
      [] OTHER -> {"bottom", "left", "right"}

\* the style entry of region r for edge e
EdgeField(r, e) ==
    IF r = "floatingActionButton" THEN e
    ELSE CASE e = "top" -> "paddingTop" [] e = "bottom" -> "paddingBottom"
           [] e = "left" -> "paddingLeft" [] e = "right" -> "paddingRight"

\* the caller's own padding or offset of region r at edge e
OwnOffset(r, e) ==
    IF Has(Cfg(r), EdgeField(r, e)) THEN Cfg(r)[EdgeField(r, e)]
    ELSE IF r = "floatingActionButton" THEN 16 ELSE 0

\* the caller-supplied inset for edge e, 0 when the record or the edge is absent
SuppliedInset(r, e) ==
    IF Has(Cfg(r), "safeAreaInsets") /\ e \in DOMAIN Cfg(r).safeAreaInsets
    THEN Cfg(r).safeAreaInsets[e] ELSE 0

\* C12: in the default visual of the bottom nav, FAB, bottom sheet and top
\* nav, what is added to the padding or offset of every edge the region
\* handles is the supplied inset of that edge (0 when the insets record or
\* the edge is absent) if useSafeArea is set, and 0 if it is not
C12_SafeAreaInsets ==
    \A r \in InsetRegions :
        tree[r].kind = "default" =>
            \A e \in HandledEdges(r) :
                tree[r].style[EdgeField(r, e)] - OwnOffset(r, e)
                    = (IF Has(Cfg(r), "useSafeArea") /\ Cfg(r).useSafeArea
                       THEN SuppliedInset(r, e) ELSE 0)

\* C12 witness: a FAB with useSafeArea set and an insets record that has only
\* a bottom inset is lifted by that inset and keeps its right offset
C12_Witness ==
    /\ tree.floatingActionButton.kind = "default"
    /\ Flag(Cfg("floatingActionButton"), "useSafeArea")
    /\ Has(Cfg("floatingActionButton"), "safeAreaInsets")
    /\ Cfg("floatingActionButton").safeAreaInsets = [bottom |-> 34]
    /\ tree.floatingActionButton.style.bottom = 16 + 34
    /\ tree.floatingActionButton.style.right = 16

(***************************************************************************)
(* SpecBody: the body is given caller content, a custom renderer, the      *)
(* scroll flag, a scroll callback and a custom scroll indicator.           *)
(***************************************************************************)
BodyConfigs ==
    {Undef} \cup
    {Obj(v @@ r @@ e @@ f @@ i @@ l) :
        v \in {EmptyRec, [view |-> "view"]},
        r \in {EmptyRec, [renderCustomBody |-> "customBody"]},
        e \in {EmptyRec, [scrollEnabled |-> TRUE], [scrollEnabled |-> FALSE]},
        f \in {EmptyRec, [onScroll |-> "fn"]},
        i \in {EmptyRec, [renderCustomScrollIndicator |-> "customIndicator"]},
        l \in {EmptyRec, [onLayout |-> "fn"]}}

InitBody ==
    \E o \in {"ios", "android"}, p \in BodyConfigs :
        Mount([AllUndef EXCEPT !["body"] = p], o, "light", FALSE)

BodyRerender == \E p \in BodyConfigs : p # props.body /\ Rerender("body", p)

NextBody == BodyRerender \/ handleBodyLayout

SpecBody == InitBody /\ [][NextBody]_vars

\* the body is configured for the scroll-enabled mode
ScrollMode == Flag(Cfg("body"), "scrollEnabled") /\ ~Has(Cfg("body"), "renderCustomBody")

\* C13: the body is rendered in exactly one of the modes custom, scroll-enabled
\* and static; with scrollEnabled set and no custom renderer the caller
\* content is wrapped in a scrollable container that takes scroll events
C13_BodyRenderModes ==
    /\ tree.body.kind \in {"custom", "default"}
    /\ ScrollMode =>
           /\ tree.body.kind = "default"
           /\ tree.body.scrollable
           /\ "scrollEnabled" \in tree.body.reads

\* C14: the scroll-indicator geometry handed to the custom scroll indicator
\* is never negative; with content height 0 or viewport height 0 the
\* indicator height is 0, and the percentage is 0 when nothing can scroll
C14_ScrollIndicatorGeometry ==
    (ScrollMode /\ Has(Cfg("body"), "renderCustomScrollIndicator")) =>
        /\ {"indicatorHeight", "contentHeight", "scrollViewHeight", "scrollPercentage"}
               \subseteq DOMAIN tree.body.args
        /\ tree.body.args.indicatorHeight >= 0
        /\ tree.body.args.scrollPercentage >= 0
        /\ (tree.body.args.contentHeight = 0 \/ tree.body.args.scrollViewHeight = 0)
               => tree.body.args.indicatorHeight = 0
        /\ tree.body.args.contentHeight <= tree.body.args.scrollViewHeight
               => tree.body.args.scrollPercentage = 0

(***************************************************************************)
(* SpecVisuals: one region at a time is given the fields its default       *)
(* visual lays its content out with, under both writing directions.        *)
(***************************************************************************)
\* the records that set any of the fields of fs to one of its values in vs
Choices(fs, vs) ==
    {[f \in d |-> g[f]] : d \in SUBSET fs, g \in [fs -> vs]}

VisualConfigs(r) ==
    CASE r = "statusBar" ->
            {Obj(t @@ n @@ a) :
                t \in {EmptyRec, [title |-> "Title"], [title |-> ""]},
                n \in {EmptyRec, [content |-> "node"]},
                a \in Choices({"contentAlignment"}, {"flex-end", "space-around"})}
      [] r = "appBar" ->
            {Obj(a) : a \in Choices({"horizontalJustification", "verticalAlignment"},
                                    {"flex-end", "justify"})}
      [] r = "bottomNavigationBar" ->
            {Obj(a @@ d @@ f) :
                a \in Choices({"horizontalJustification", "justifyContent"},
                              {"flex-end", "justify"}),
                d \in Choices({"rtl"}, BOOLEAN),
                f \in Choices({"flexDirection"}, {"row", "column"})}
      [] r = "topNavigationBar" ->
            {Obj(a @@ f) :
                a \in Choices({"justifyContent"}, {"center", "justify"}),
                f \in Choices({"flexDirection"}, {"row-reverse"})}
      [] r = "floatingActionButton" ->
            {Obj(z @@ b) :
                z \in Choices({"size"}, {0, 40, 57}),
                b \in Choices({"borderRadius"}, {0, 8})}
      [] OTHER -> {Undef}

InitVisuals ==
    \E o \in {"ios", "android"}, rtl \in BOOLEAN :
        Mount(AllUndef, o, "light", rtl)

VisualsRerender ==
    \E r \in Regions :
      \E p \in VisualConfigs(r) \cup {Undef} :
        /\ \A q \in Regions \ {r} : ~props[q].present
        /\ Rerender(r, p)

NextVisuals == VisualsRerender

SpecVisuals == InitVisuals /\ [][NextVisuals]_vars

\* cfg.f is truthy, for a string-valued field
Truthy(cfg, f) == Has(cfg, f) /\ cfg[f] # ""

\* C21: in the default status bar visual the content is rendered, and the
\* title is not, when a content is provided; the title is rendered when only
\* a (non-empty) title is provided; the container is empty otherwise
C21_StatusBarContentPrecedence ==
    tree.statusBar.kind = "default" =>
        LET cfg == Cfg("statusBar")
        IN tree.statusBar.children =
               (IF Has(cfg, "content") THEN <<"content">>
                ELSE IF Truthy(cfg, "title") THEN <<"title">>
                ELSE <<>>)

\* C21 witness: a title and a content are both provided and the content alone
\* is rendered
C21_Witness ==
    /\ tree.statusBar.kind = "default"
    /\ Truthy(Cfg("statusBar"), "title")
    /\ Has(Cfg("statusBar"), "content")
    /\ tree.statusBar.children = <<"content">>

\* the values the type of an alignment or justification field lists
Recognised(f) ==
    CASE f = "contentAlignment" -> {"flex-start", "center", "flex-end", "space-between"}
      [] f = "verticalAlignment" -> {"flex-start", "center", "flex-end"}
      [] OTHER -> {"flex-start", "center", "flex-end", "space-between",
                   "space-around", "space-evenly"}

\* the value of field f when it is recognised, the default d otherwise
Fallback(cfg, f, d) ==
    IF Truthy(cfg, f) /\ cfg[f] \in Recognised(f) THEN cfg[f] ELSE d

Flow(rtl) == IF rtl THEN "row-reverse" ELSE "row"

\* C27 as stated: an rtl flag in the resolved config of the bottom nav or of
\* the app bar alone decides between row and row-reversed flow, and the
\* system writing direction decides when rtl is absent
C27_Original_RtlAloneDecides ==
    \A r \in {"appBar", "bottomNavigationBar"} :
        tree[r].kind = "default" =>
            tree[r].style.flexDirection = Flow(Nullish(Cfg(r), "rtl", isRTL))

\* C27: in the app bar, and in a bottom nav without a flexDirection, an rtl
\* flag in the resolved config decides between row and row-reversed flow and
\* the system writing direction decides when rtl is absent; a flexDirection
\* of the bottom nav is used whatever rtl and the system say; the top nav
\* has no rtl flag and follows its flexDirection, else the system
C27_DirectionalFlow ==
    /\ tree.appBar.kind = "default" =>
           tree.appBar.style.flexDirection = Flow(Nullish(Cfg("appBar"), "rtl", isRTL))
    /\ tree.bottomNavigationBar.kind = "default" =>
           tree.bottomNavigationBar.style.flexDirection
               = (IF Truthy(Cfg("bottomNavigationBar"), "flexDirection")
                  THEN Cfg("bottomNavigationBar").flexDirection
                  ELSE Flow(Nullish(Cfg("bottomNavigationBar"), "rtl", isRTL)))
    /\ tree.topNavigationBar.kind = "default" =>
           tree.topNavigationBar.style.flexDirection
               = (IF Truthy(Cfg("topNavigationBar"), "flexDirection")
                  THEN Cfg("topNavigationBar").flexDirection
                  ELSE Flow(isRTL))

\* C27 witness: a bottom nav with rtl false and no flexDirection flows as a
\* row on a right-to-left system
C27_Witness ==
    /\ tree.bottomNavigationBar.kind = "default"
    /\ isRTL
    /\ Has(Cfg("bottomNavigationBar"), "rtl")
    /\ ~Cfg("bottomNavigationBar").rtl
    /\ ~Has(Cfg("bottomNavigationBar"), "flexDirection")
    /\ tree.bottomNavigationBar.style.flexDirection = "row"

\* two fractions denote the same length
SameRatio(a, b) == a.num * b.den = b.num * a.den

====
